---- MODULE Spec2Model ----
(***************************************************************************)
(* A model of the edusync classroom-management API.  The relational store  *)
(* (src/db/database.go:188-318) is the state; every HTTP handler is one    *)
(* action that reads the caller's identity from the token, runs the        *)
(* handler's checks in the order of the code and performs its SQL writes.  *)
(* The repository holds several generations of the same handler; each      *)
(* generation is modelled as its own action and named after the place it   *)
(* lives in (see MODEL_MAP.json).                                          *)
(***************************************************************************)
EXTENDS Integers, Sequences, FiniteSets, TLC

(***************************************************************************)
(* Bounds of the model                                                     *)
(***************************************************************************)
NumEmails == 2
MaxUsers == 2
MaxCourses == 2
MaxAssignments == 2
MaxSubmissions == 2
MaxMaterials == 1
MaxAnnouncements == 1
MaxEnrollments == 5
MaxPoints == 2
NumTitles == 2
MaxRows == 3

\* The clock runs over 0..MaxTime; the seeded due dates are 1.
MaxTime == 2
\* The requests that are handled at the same time.
MaxRequests == 2

\* The ticks of the clock a token lives: time.Hour * 24.
TokenLife == 1

(***************************************************************************)
(* Program constants                                                       *)
(***************************************************************************)
MinPasswordLen == 8
StatusOK == 200
StatusCreated == 201
StatusBadRequest == 400
StatusUnauthorized == 401
StatusForbidden == 403
StatusNotFound == 404
StatusConflict == 409
StatusInternalServerError == 500
\* float64(n) * 100 / float64(d)
Percent == 100

VARIABLES
    user,           \* user table: user_id -> row
    teacher,        \* teacher table: teacher_id -> row
    student,        \* student table: student_id -> row
    classroom,      \* classroom table: course_id -> row
    enrollment,     \* enrollment table: enrollment_id -> row
    assignment,     \* assignment table: assignment_id -> row
    submission,     \* submission table: submission_id -> row
    material,       \* material table: material_id -> row
    announcement,   \* announcement table: announcement_id -> row
    nextId,         \* the AUTO_INCREMENT counter of every table
    now,            \* the clock read by time.Now() and NOW()
    inflight,       \* the requests between their checks and their INSERT
    conns,          \* db.RootDB, db.StudentDB and db.TeacherDB
    resp            \* the response of the request handled last

vars == <<user, teacher, student, classroom, enrollment, assignment,
          submission, material, announcement, nextId, now, inflight, conns,
          resp>>

\* A nil *sql.DB.
Nil == "nil"

\* The connections as InitDatabaseConnections leaves them when MySQL knows
\* the users root, student and TEACHER: each is named by its MySQL user.
AllConnected == [RootDB |-> "root", StudentDB |-> "student", TeacherDB |-> "TEACHER"]

people == <<user, teacher, student>>
courseware == <<classroom, assignment, material, announcement>>

(***************************************************************************)
(* The store                                                               *)
(***************************************************************************)
NoRows == [k \in {} |-> k]

\* INSERT: the row is stored under the id the AUTO_INCREMENT counter gives.
InsertRow(table, id, row) == [k \in DOMAIN table \cup {id} |->
                                 IF k = id THEN row ELSE table[k]]

\* DELETE FROM ... : the rows of ids are physically removed.
DeleteRows(table, ids) == [k \in DOMAIN table \ ids |-> table[k]]

Bump(table0) == [nextId EXCEPT ![table0] = @ + 1]

NoData == <<>>

\* c.JSON(code, body): what the caller receives, with the request it answers:
\* the handler, what it does (verb) to which kind of entity, the user id of
\* the token, and the id the request names.
Reply(op, verb, kind, uid, id, code, data) ==
    [op |-> op, verb |-> verb, kind |-> kind, uid |-> uid, id |-> id,
     code |-> code, data |-> data]

IsError(r) == r.code >= 400

(***************************************************************************)
(* Callers.  auth.AuthMiddleware puts the token's user_id and role in the  *)
(* request context; a token is issued for a row of the user table.         *)
(***************************************************************************)
RoleOf(uid) == user[uid].role

\* SELECT teacher_id FROM teacher WHERE user_id = ?
TeacherIdsOf(uid) == {t \in DOMAIN teacher : teacher[t].user_id = uid}

\* SELECT student_id FROM student WHERE user_id = ?
StudentIdsOf(uid) == {s \in DOMAIN student : student[s].user_id = uid}

(***************************************************************************)
(* Registration                                                            *)
(***************************************************************************)
\* A password is the sequence of the classes of its characters:
\* "U" upper-case letter, "l" lower-case letter, "d" digit, "s" other.
Passwords == { <<"U", "l", "l", "l", "l", "l", "l", "d">>,
               <<"U", "l", "d">>,
               <<"l", "l", "l", "l", "l", "l", "l", "l">> }

ValidatePassword(password) ==
    LET hasUpper == \E i \in 1..Len(password) : password[i] = "U"
        hasLetter == \E i \in 1..Len(password) : password[i] \in {"U", "l"}
        hasDigit == \E i \in 1..Len(password) : password[i] = "d"
    IN  /\ Len(password) >= MinPasswordLen
        /\ hasUpper
        /\ hasLetter /\ hasDigit

\* 0 stands for the empty string, 1..NumEmails for well-formed addresses.
EmptyEmail == 0
Emails == 1..NumEmails

RegisterRequests ==
    [email : {EmptyEmail} \cup Emails,
     password : Passwords,
     role : {"teacher", "student", "admin", "guest"},
     profile : BOOLEAN]

\* The store call of a handler that returns an error ("none": no call fails).
\* "strict": the server runs in strict SQL mode.
DbFailures == {"none", "strict", "begin", "user", "lastid", "profile", "commit"}

\* user.role is ENUM('teacher', 'student') NOT NULL: outside strict SQL mode
\* any other value is stored as the empty string.
EnumRole(role) == IF role \in {"teacher", "student"} THEN role ELSE ""

\* bcrypt: a hash carries the password it was made from and opens for
\* no other.
GenerateFromPassword(password) == <<"bcrypt", password>>

\* A comparison that accepts every password.
ComparesAnyPassword(hash, password) == TRUE

CompareHashAndPassword(hash, password) == hash = GenerateFromPassword(password)

UserRow(req) == [email |-> req.email, role |-> EnumRole(req.role),
                 password |-> GenerateFromPassword(req.password),
                 active |-> TRUE]

ProfileRow(uid) == [user_id |-> uid, active |-> TRUE]

\* defer tx.Rollback() / tx.Commit(): the writes made inside the transaction
\* reach the tables only when Commit was called and succeeded.
TxOutcomeKeepsWrites(committed, before, written) == written

TxOutcome(committed, before, written) ==
    IF committed THEN written ELSE before

\* The engine hands out an AUTO_INCREMENT value to every executed INSERT;
\* a rollback does not give it back.
RegisterEffect(op, req, profileTable, code, userInserted, profileInserted, committed) ==
    LET uid == nextId.user
        users1 == IF userInserted THEN InsertRow(user, uid, UserRow(req)) ELSE user
        teachers1 == IF profileInserted /\ profileTable = "teacher"
                     THEN InsertRow(teacher, nextId.teacher, ProfileRow(uid))
                     ELSE teacher
        students1 == IF profileInserted /\ profileTable = "student"
                     THEN InsertRow(student, nextId.student, ProfileRow(uid))
                     ELSE student
    IN  /\ user' = TxOutcome(committed, user, users1)
        /\ teacher' = TxOutcome(committed, teacher, teachers1)
        /\ student' = TxOutcome(committed, student, students1)
        /\ nextId' = [nextId EXCEPT
                        !.user = IF userInserted THEN @ + 1 ELSE @,
                        !.teacher = IF profileInserted /\ profileTable = "teacher"
                                    THEN @ + 1 ELSE @,
                        !.student = IF profileInserted /\ profileTable = "student"
                                    THEN @ + 1 ELSE @]
        /\ resp' = Reply(op, "create", "user", 0, 0, code,
                         [email |-> req.email, userInserted |-> userInserted,
                          created |-> IF committed THEN uid ELSE 0])
        /\ UNCHANGED <<courseware, enrollment, submission, now, inflight, conns>>

EmailTaken(email) == \E u \in DOMAIN user : user[u].email = email

ActiveEmailTaken(email) ==
    \E u \in DOMAIN user : user[u].email = email /\ user[u].active

\* The INSERT into user fails on a store error, on the UNIQUE key of
\* user.email, and in strict SQL mode on a role outside the ENUM.
UserInsertFails(req, fail) ==
    \/ fail \in {"user", "strict"}  /\ (fail = "strict" => EnumRole(req.role) # req.role)
    \/ EmailTaken(req.email)

RegisterRoom == nextId.user <= MaxUsers

\* handlers.RegisterHandler of the role-connection generation.
RegisterHandler_root(req, fail) ==
    /\ RegisterRoom
    /\ LET needsProfile == req.role \in {"student", "teacher"}
       IN
       IF req.email = EmptyEmail
       THEN RegisterEffect("RegisterHandler_root", req, "none", StatusBadRequest, FALSE, FALSE, FALSE)
       ELSE IF req.role \notin {"student", "teacher", "admin", "dev"}
       THEN RegisterEffect("RegisterHandler_root", req, "none", StatusBadRequest, FALSE, FALSE, FALSE)
       ELSE IF ~ValidatePassword(req.password)
       THEN RegisterEffect("RegisterHandler_root", req, "none", StatusBadRequest, FALSE, FALSE, FALSE)
       ELSE IF EmailTaken(req.email)
       THEN RegisterEffect("RegisterHandler_root", req, "none", StatusConflict, FALSE, FALSE, FALSE)
       ELSE IF fail = "begin"
       THEN RegisterEffect("RegisterHandler_root", req, "none", StatusInternalServerError, FALSE, FALSE, FALSE)
       ELSE IF UserInsertFails(req, fail)
       THEN RegisterEffect("RegisterHandler_root", req, "none", StatusInternalServerError, FALSE, FALSE, FALSE)
       ELSE IF fail = "lastid"
       THEN RegisterEffect("RegisterHandler_root", req, "none", StatusInternalServerError, TRUE, FALSE, FALSE)
       ELSE IF needsProfile /\ ~req.profile
       THEN RegisterEffect("RegisterHandler_root", req, "none", StatusBadRequest, TRUE, FALSE, FALSE)
       ELSE IF needsProfile /\ fail = "profile"
       THEN RegisterEffect("RegisterHandler_root", req, "none", StatusInternalServerError, TRUE, FALSE, FALSE)
       ELSE IF fail = "commit"
       THEN RegisterEffect("RegisterHandler_root", req, IF needsProfile THEN req.role ELSE "none",
                           StatusInternalServerError, TRUE, needsProfile, FALSE)
       ELSE RegisterEffect("RegisterHandler_root", req, IF needsProfile THEN req.role ELSE "none",
                           StatusCreated, TRUE, needsProfile, TRUE)

\* main.registerHandler: as above, without the password-strength check.
registerHandler(req, fail) ==
    /\ RegisterRoom
    /\ LET needsProfile == req.role \in {"student", "teacher"}
       IN
       IF req.email = EmptyEmail
       THEN RegisterEffect("registerHandler", req, "none", StatusBadRequest, FALSE, FALSE, FALSE)
       ELSE IF req.role \notin {"student", "teacher", "admin", "dev"}
       THEN RegisterEffect("registerHandler", req, "none", StatusBadRequest, FALSE, FALSE, FALSE)
       ELSE IF EmailTaken(req.email)
       THEN RegisterEffect("registerHandler", req, "none", StatusConflict, FALSE, FALSE, FALSE)
       ELSE IF fail = "begin"
       THEN RegisterEffect("registerHandler", req, "none", StatusInternalServerError, FALSE, FALSE, FALSE)
       ELSE IF UserInsertFails(req, fail)
       THEN RegisterEffect("registerHandler", req, "none", StatusInternalServerError, FALSE, FALSE, FALSE)
       ELSE IF fail = "lastid"
       THEN RegisterEffect("registerHandler", req, "none", StatusInternalServerError, TRUE, FALSE, FALSE)
       ELSE IF needsProfile /\ ~req.profile
       THEN RegisterEffect("registerHandler", req, "none", StatusBadRequest, TRUE, FALSE, FALSE)
       ELSE IF needsProfile /\ fail = "profile"
       THEN RegisterEffect("registerHandler", req, "none", StatusInternalServerError, TRUE, FALSE, FALSE)
       ELSE IF fail = "commit"
       THEN RegisterEffect("registerHandler", req, IF needsProfile THEN req.role ELSE "none",
                           StatusInternalServerError, TRUE, needsProfile, FALSE)
       ELSE RegisterEffect("registerHandler", req, IF needsProfile THEN req.role ELSE "none",
                           StatusCreated, TRUE, needsProfile, TRUE)

\* handlers.RegisterHandler of the single-connection generation: the binding
\* accepts the roles teacher and student only, and every role other than
\* teacher gets a student profile.
RegisterHandler(req, fail) ==
    /\ RegisterRoom
    /\ LET table == IF req.role = "teacher" THEN "teacher" ELSE "student"
       IN
       IF req.email = EmptyEmail \/ req.role \notin {"teacher", "student"}
       THEN RegisterEffect("RegisterHandler", req, "none", StatusBadRequest, FALSE, FALSE, FALSE)
       ELSE IF ActiveEmailTaken(req.email)
       THEN RegisterEffect("RegisterHandler", req, "none", StatusConflict, FALSE, FALSE, FALSE)
       ELSE IF fail = "begin"
       THEN RegisterEffect("RegisterHandler", req, "none", StatusInternalServerError, FALSE, FALSE, FALSE)
       ELSE IF UserInsertFails(req, fail)
       THEN RegisterEffect("RegisterHandler", req, "none", StatusInternalServerError, FALSE, FALSE, FALSE)
       ELSE IF fail = "lastid"
       THEN RegisterEffect("RegisterHandler", req, "none", StatusInternalServerError, TRUE, FALSE, FALSE)
       ELSE IF fail = "profile"
       THEN RegisterEffect("RegisterHandler", req, "none", StatusInternalServerError, TRUE, FALSE, FALSE)
       ELSE IF fail = "commit"
       THEN RegisterEffect("RegisterHandler", req, table, StatusInternalServerError, TRUE, TRUE, FALSE)
       ELSE RegisterEffect("RegisterHandler", req, table, StatusOK, TRUE, TRUE, TRUE)

\* The rows the teacher-side handlers have created so far, and the bound on
\* them: a create handler is taken while its table and the store have room.
RowsCreated ==
    (nextId.classroom - 1) + (nextId.assignment - 1)
        + (nextId.material - 1) + (nextId.announcement - 1)

RoomFor(table0, most) == nextId[table0] <= most /\ RowsCreated < MaxRows

(***************************************************************************)
(* Ownership lookups shared by the teacher handlers                        *)
(***************************************************************************)
\* QueryRow(...).Scan(&teacherID): the first matching row, 0 for ErrNoRows.
TeacherIdOf(uid) ==
    IF TeacherIdsOf(uid) = {} THEN 0 ELSE CHOOSE t \in TeacherIdsOf(uid) : TRUE

\* ... WHERE user_id = ? AND archive_delete_flag = TRUE
ActiveTeacherIdOf(uid) ==
    LET ts == {t \in TeacherIdsOf(uid) : teacher[t].active}
    IN  IF ts = {} THEN 0 ELSE CHOOSE t \in ts : TRUE

StudentIdOf(uid) ==
    IF StudentIdsOf(uid) = {} THEN 0 ELSE CHOOSE x \in StudentIdsOf(uid) : TRUE

ActiveStudentIdOf(uid) ==
    LET ss == {x \in StudentIdsOf(uid) : student[x].active}
    IN  IF ss = {} THEN 0 ELSE CHOOSE x \in ss : TRUE

\* classroom c JOIN teacher t ON c.teacher_id = t.teacher_id
\* WHERE c.course_id = ? AND t.user_id = ?
OwnsCourseByUser(uid, course) ==
    /\ course \in DOMAIN classroom
    /\ classroom[course].teacher_id \in TeacherIdsOf(uid)

\* classroom WHERE course_id = ? AND teacher_id = ? AND archive_delete_flag = TRUE
OwnsActiveCourse(tid, course) ==
    /\ course \in DOMAIN classroom
    /\ classroom[course].teacher_id = tid
    /\ classroom[course].active

\* assignment a JOIN classroom c JOIN teacher t
\* WHERE a.assignment_id = ? AND t.user_id = ?
OwnsAssignmentByUser(uid, aid) ==
    /\ aid \in DOMAIN assignment
    /\ OwnsCourseByUser(uid, assignment[aid].course_id)

\* assignment a JOIN classroom c WHERE a.assignment_id = ? AND c.teacher_id = ?
\* AND a.archive_delete_flag = TRUE AND c.archive_delete_flag = TRUE
OwnsActiveAssignment(tid, aid) ==
    /\ aid \in DOMAIN assignment
    /\ assignment[aid].active
    /\ OwnsActiveCourse(tid, assignment[aid].course_id)

(***************************************************************************)
(* Classrooms                                                              *)
(***************************************************************************)
\* 0 stands for a field the request body leaves out (the empty string, the
\* zero time, the number 0).
Absent == 0

\* A name is a string of letters and spaces; a letter is upper or lower case.
Letter(ch, upper) == [ch |-> ch, upper |-> upper]

Space == Letter(0, FALSE)

EmptyName == <<>>

\* user.name of a stored user: one capital letter, the user's own.
NameOf(uid) == <<Letter(uid, TRUE)>>

\* strings.ToLower
ToLower(name) == [i \in DOMAIN name |-> [name[i] EXCEPT !.upper = FALSE]]

RECURSIVE TrimLeft(_)
TrimLeft(name) ==
    IF name # EmptyName /\ Head(name) = Space THEN TrimLeft(Tail(name)) ELSE name

RECURSIVE TrimRight(_)
TrimRight(name) ==
    IF name # EmptyName /\ name[Len(name)] = Space
    THEN TrimRight(SubSeq(name, 1, Len(name) - 1))
    ELSE name

\* strings.TrimSpace
TrimSpace(name) == TrimRight(TrimLeft(name))

\* strings.EqualFold: equal up to the case of the letters.
EqualFold(a, b) == ToLower(a) = ToLower(b)

ClassroomRow(tid, title) == [teacher_id |-> tid, title |-> title, active |-> TRUE]

\* FOREIGN KEY ... ON DELETE CASCADE: deleting classrooms deletes the rows
\* that reference them, and the rows that reference those.
DeleteClassroomsCascade(ids) ==
    LET gone == {a \in DOMAIN assignment : assignment[a].course_id \in ids}
    IN  /\ classroom' = DeleteRows(classroom, ids)
        /\ assignment' = DeleteRows(assignment, gone)
        /\ submission' = DeleteRows(submission,
              {x \in DOMAIN submission : submission[x].assignment_id \in gone})
        /\ material' = DeleteRows(material,
              {m \in DOMAIN material : material[m].course_id \in ids})
        /\ announcement' = DeleteRows(announcement,
              {n \in DOMAIN announcement : announcement[n].course_id \in ids})
        /\ enrollment' = DeleteRows(enrollment,
              {e \in DOMAIN enrollment : enrollment[e].course_id \in ids})

CreateClassroomHandler(uid, title) ==
    /\ RoomFor("classroom", MaxCourses)
    /\ LET op == "CreateClassroomHandler"
           tid == TeacherIdOf(uid)
           fails(code) ==
               /\ resp' = Reply(op, "create", "classroom", uid, 0, code, NoData)
               /\ UNCHANGED <<classroom, nextId>>
       IN  IF RoleOf(uid) # "teacher" THEN fails(StatusForbidden)
           ELSE IF title = Absent THEN fails(StatusBadRequest)
           ELSE IF tid = 0 THEN fails(StatusNotFound)
           ELSE /\ classroom' = InsertRow(classroom, nextId.classroom,
                                          ClassroomRow(tid, title))
                /\ nextId' = Bump("classroom")
                /\ resp' = Reply(op, "create", "classroom", uid, 0, StatusCreated,
                                 [created |-> nextId.classroom])
    /\ UNCHANGED <<people, enrollment, assignment, submission, material,
                   announcement, now, inflight, conns>>

\* The UPDATE names the caller's teacher_id in its WHERE clause; the handler
\* does not look at the number of rows it changed.
UpdateClassroomHandler(uid, course, title) ==
    /\ LET op == "UpdateClassroomHandler"
           tid == TeacherIdOf(uid)
           hit == course \in DOMAIN classroom /\ classroom[course].teacher_id = tid
           fails(code) ==
               /\ resp' = Reply(op, "update", "classroom", uid, course, code, NoData)
               /\ UNCHANGED classroom
       IN  IF RoleOf(uid) # "teacher" THEN fails(StatusForbidden)
           ELSE IF title = Absent THEN fails(StatusBadRequest)
           ELSE IF tid = 0 THEN fails(StatusNotFound)
           ELSE /\ classroom' = IF hit
                                THEN [classroom EXCEPT ![course].title = title]
                                ELSE classroom
                /\ resp' = Reply(op, "update", "classroom", uid, course, StatusOK,
                                 NoData)
    /\ UNCHANGED <<people, enrollment, assignment, submission, material,
                   announcement, nextId, now, inflight, conns>>

DeleteClassroomHandler(uid, course) ==
    /\ LET op == "DeleteClassroomHandler"
           tid == TeacherIdOf(uid)
           hit == course \in DOMAIN classroom /\ classroom[course].teacher_id = tid
           fails(code) ==
               /\ resp' = Reply(op, "delete", "classroom", uid, course, code, NoData)
               /\ UNCHANGED <<classroom, enrollment, assignment, submission,
                              material, announcement>>
       IN  IF RoleOf(uid) # "teacher" THEN fails(StatusForbidden)
           ELSE IF tid = 0 THEN fails(StatusNotFound)
           ELSE IF ~hit THEN fails(StatusNotFound)
           ELSE /\ DeleteClassroomsCascade({course})
                /\ resp' = Reply(op, "delete", "classroom", uid, course, StatusOK,
                                 NoData)
    /\ UNCHANGED <<people, nextId, now, inflight, conns>>

(***************************************************************************)
(* Assignments.  Three generations of the handlers exist: assignment.go    *)
(* holds the one that joins on the token's user id and runs in a           *)
(* transaction (_a1) and the one that uses archive_delete_flag (_a2); the  *)
(* third binds an AssignmentRequest (_p4).                                 *)
(***************************************************************************)
AssignmentRow(req) ==
    [course_id |-> req.course_id, title |-> req.title,
     due_date |-> req.due_date, max_points |-> req.max_points, active |-> TRUE]

\* binding:"required" on course_id, title, due_date and max_points.
BindsAssignmentRequest(req) ==
    /\ req.course_id # Absent /\ req.title # Absent
    /\ req.due_date # Absent /\ req.max_points # Absent

AssignmentFrame ==
    UNCHANGED <<people, classroom, enrollment, material, announcement, now, inflight, conns>>

AssignmentReply(op, verb, uid, id, code, data) ==
    resp' = Reply(op, verb, "assignment", uid, id, code, data)

InsertAssignment(op, uid, req, code) ==
    /\ assignment' = InsertRow(assignment, nextId.assignment, AssignmentRow(req))
    /\ nextId' = Bump("assignment")
    /\ AssignmentReply(op, "create", uid, req.course_id, code,
                       [created |-> nextId.assignment])
    /\ UNCHANGED submission

CreateAssignmentHandler_a1(uid, req) ==
    /\ RoomFor("assignment", MaxAssignments)
    /\ LET op == "CreateAssignmentHandler_a1"
           fails(code) ==
               /\ AssignmentReply(op, "create", uid, req.course_id, code, NoData)
               /\ UNCHANGED <<assignment, submission, nextId>>
       IN  IF ~BindsAssignmentRequest(req) THEN fails(StatusBadRequest)
           ELSE IF ~OwnsCourseByUser(uid, req.course_id) THEN fails(StatusForbidden)
           ELSE InsertAssignment(op, uid, req, StatusCreated)
    /\ AssignmentFrame

\* Only the fields the request carries are written.
MergeAssignment(row, req) ==
    [row EXCEPT !.title = IF req.title # Absent THEN req.title ELSE @,
                !.due_date = IF req.due_date # Absent THEN req.due_date ELSE @,
                !.max_points = IF req.max_points > 0 THEN req.max_points ELSE @]

UpdateAssignmentHandler_a1(uid, aid, req) ==
    /\ LET op == "UpdateAssignmentHandler_a1"
           fails(code) ==
               /\ AssignmentReply(op, "update", uid, aid, code, req)
               /\ UNCHANGED assignment
       IN  IF ~OwnsAssignmentByUser(uid, aid) THEN fails(StatusForbidden)
           ELSE IF req.title = Absent /\ req.due_date = Absent /\ ~(req.max_points > 0)
           THEN fails(StatusBadRequest)
           ELSE /\ assignment' = [assignment EXCEPT
                                     ![aid] = MergeAssignment(@, req)]
                /\ AssignmentReply(op, "update", uid, aid, StatusOK, req)
    /\ UNCHANGED <<submission, nextId>>
    /\ AssignmentFrame

\* The submissions are marked deleted and the assignment row is removed; the
\* foreign key of submission then removes the marked rows with it.
DeleteAssignmentHandler_a1(uid, aid) ==
    /\ LET op == "DeleteAssignmentHandler_a1"
       IN  IF ~OwnsAssignmentByUser(uid, aid)
           THEN /\ AssignmentReply(op, "delete", uid, aid, StatusForbidden, NoData)
                /\ UNCHANGED <<assignment, submission>>
           ELSE /\ assignment' = DeleteRows(assignment, {aid})
                /\ submission' = DeleteRows(submission,
                      {x \in DOMAIN submission : submission[x].assignment_id = aid})
                /\ AssignmentReply(op, "delete", uid, aid, StatusOK, NoData)
    /\ UNCHANGED nextId
    /\ AssignmentFrame

CreateAssignmentHandler_a2(uid, req) ==
    /\ RoomFor("assignment", MaxAssignments)
    /\ LET op == "CreateAssignmentHandler_a2"
           tid == ActiveTeacherIdOf(uid)
           fails(code) ==
               /\ AssignmentReply(op, "create", uid, req.course_id, code, NoData)
               /\ UNCHANGED <<assignment, submission, nextId>>
       IN  IF RoleOf(uid) # "teacher" THEN fails(StatusForbidden)
           ELSE IF tid = 0 THEN fails(StatusInternalServerError)
           ELSE IF ~OwnsActiveCourse(tid, req.course_id) THEN fails(StatusForbidden)
           ELSE InsertAssignment(op, uid, req, StatusOK)
    /\ AssignmentFrame

\* Every column is overwritten with the request's value, present or not.
UpdateAssignmentHandler_a2(uid, aid, req) ==
    /\ LET op == "UpdateAssignmentHandler_a2"
           tid == ActiveTeacherIdOf(uid)
           fails(code) ==
               /\ AssignmentReply(op, "update", uid, aid, code, req)
               /\ UNCHANGED assignment
       IN  IF RoleOf(uid) # "teacher" THEN fails(StatusForbidden)
           ELSE IF tid = 0 THEN fails(StatusInternalServerError)
           ELSE IF ~OwnsActiveAssignment(tid, aid) THEN fails(StatusForbidden)
           ELSE /\ assignment' = [assignment EXCEPT
                                     ![aid].title = req.title,
                                     ![aid].due_date = req.due_date,
                                     ![aid].max_points = req.max_points]
                /\ AssignmentReply(op, "update", uid, aid, StatusOK, req)
    /\ UNCHANGED <<submission, nextId>>
    /\ AssignmentFrame

\* UPDATE assignment SET archive_delete_flag = FALSE
SoftDeleteAssignment(op, uid, aid) ==
    LET tid == ActiveTeacherIdOf(uid)
        fails(code) ==
            /\ AssignmentReply(op, "delete", uid, aid, code, NoData)
            /\ UNCHANGED assignment
    IN  IF RoleOf(uid) # "teacher" THEN fails(StatusForbidden)
        ELSE IF tid = 0 THEN fails(StatusInternalServerError)
        ELSE IF ~OwnsActiveAssignment(tid, aid) THEN fails(StatusForbidden)
        ELSE /\ assignment' = [assignment EXCEPT ![aid].active = FALSE]
             /\ AssignmentReply(op, "delete", uid, aid, StatusOK, NoData)

DeleteAssignmentHandler_a2(uid, aid) ==
    /\ SoftDeleteAssignment("DeleteAssignmentHandler_a2", uid, aid)
    /\ UNCHANGED <<submission, nextId>>
    /\ AssignmentFrame

CreateAssignmentHandler_p4(uid, req) ==
    /\ RoomFor("assignment", MaxAssignments)
    /\ LET op == "CreateAssignmentHandler_p4"
           tid == ActiveTeacherIdOf(uid)
           fails(code) ==
               /\ AssignmentReply(op, "create", uid, req.course_id, code, NoData)
               /\ UNCHANGED <<assignment, submission, nextId>>
       IN  IF RoleOf(uid) # "teacher" THEN fails(StatusForbidden)
           ELSE IF ~BindsAssignmentRequest(req) THEN fails(StatusBadRequest)
           ELSE IF tid = 0 THEN fails(StatusInternalServerError)
           ELSE IF ~OwnsActiveCourse(tid, req.course_id) THEN fails(StatusForbidden)
           ELSE InsertAssignment(op, uid, req, StatusOK)
    /\ AssignmentFrame

\* The ownership check reads the classroom the assignment is in; the UPDATE
\* then writes the request's course_id, which only the foreign key checks.
UpdateAssignmentHandler_p4(uid, aid, req) ==
    /\ LET op == "UpdateAssignmentHandler_p4"
           tid == ActiveTeacherIdOf(uid)
           fails(code) ==
               /\ AssignmentReply(op, "update", uid, aid, code, req)
               /\ UNCHANGED assignment
       IN  IF RoleOf(uid) # "teacher" THEN fails(StatusForbidden)
           ELSE IF ~BindsAssignmentRequest(req) THEN fails(StatusBadRequest)
           ELSE IF tid = 0 THEN fails(StatusInternalServerError)
           ELSE IF ~OwnsActiveAssignment(tid, aid) THEN fails(StatusForbidden)
           ELSE IF req.course_id \notin DOMAIN classroom
           THEN fails(StatusInternalServerError)
           ELSE /\ assignment' = [assignment EXCEPT
                                     ![aid].course_id = req.course_id,
                                     ![aid].title = req.title,
                                     ![aid].due_date = req.due_date,
                                     ![aid].max_points = req.max_points]
                /\ AssignmentReply(op, "update", uid, aid, StatusOK, req)
    /\ UNCHANGED <<submission, nextId>>
    /\ AssignmentFrame

DeleteAssignmentHandler_p4(uid, aid) ==
    /\ SoftDeleteAssignment("DeleteAssignmentHandler_p4", uid, aid)
    /\ UNCHANGED <<submission, nextId>>
    /\ AssignmentFrame

(***************************************************************************)
(* Materials.  The handlers also keep material_stats and activity_log      *)
(* rows, which no other handler reads; those tables are left out.          *)
(***************************************************************************)
MaterialRow(course, title) ==
    [course_id |-> course, title |-> title, uploaded_at |-> now, active |-> TRUE]

\* material m JOIN classroom c JOIN teacher t
\* WHERE m.material_id = ? AND t.user_id = ?
OwnsMaterialByUser(uid, mid) ==
    /\ mid \in DOMAIN material
    /\ OwnsCourseByUser(uid, material[mid].course_id)

MaterialFrame ==
    UNCHANGED <<people, classroom, enrollment, assignment, submission,
                announcement, now, inflight, conns>>

CreateMaterial(uid, course, title) ==
    /\ RoomFor("material", MaxMaterials)
    /\ LET op == "CreateMaterial"
           fails(code) ==
               /\ resp' = Reply(op, "create", "material", uid, course, code, NoData)
               /\ UNCHANGED <<material, nextId>>
       IN  IF RoleOf(uid) # "teacher" THEN fails(StatusForbidden)
           ELSE IF course = Absent \/ title = Absent THEN fails(StatusBadRequest)
           ELSE IF ~OwnsCourseByUser(uid, course) THEN fails(StatusForbidden)
           ELSE /\ material' = InsertRow(material, nextId.material,
                                         MaterialRow(course, title))
                /\ nextId' = Bump("material")
                /\ resp' = Reply(op, "create", "material", uid, course,
                                 StatusCreated, [created |-> nextId.material])
    /\ MaterialFrame

UpdateMaterial(uid, mid, title) ==
    /\ LET op == "UpdateMaterial"
           fails(code) ==
               /\ resp' = Reply(op, "update", "material", uid, mid, code,
                               [title |-> title])
               /\ UNCHANGED material
       IN  IF RoleOf(uid) # "teacher" THEN fails(StatusForbidden)
           ELSE IF ~OwnsMaterialByUser(uid, mid) THEN fails(StatusForbidden)
           ELSE /\ material' = [material EXCEPT
                      ![mid].uploaded_at = now,
                      ![mid].title = IF title # Absent THEN title ELSE @]
                /\ resp' = Reply(op, "update", "material", uid, mid, StatusOK,
                                 [title |-> title])
    /\ UNCHANGED nextId
    /\ MaterialFrame

DeleteMaterial(uid, mid) ==
    /\ LET op == "DeleteMaterial"
           fails(code) ==
               /\ resp' = Reply(op, "delete", "material", uid, mid, code, NoData)
               /\ UNCHANGED material
       IN  IF RoleOf(uid) # "teacher" THEN fails(StatusForbidden)
           ELSE IF ~OwnsMaterialByUser(uid, mid) THEN fails(StatusForbidden)
           ELSE /\ material' = DeleteRows(material, {mid})
                /\ resp' = Reply(op, "delete", "material", uid, mid, StatusOK, NoData)
    /\ UNCHANGED nextId
    /\ MaterialFrame

(***************************************************************************)
(* Announcements                                                           *)
(***************************************************************************)
AnnouncementRow(course, title) ==
    [course_id |-> course, title |-> title, active |-> TRUE]

\* announcement a JOIN classroom c WHERE a.announcement_id = ?
\* AND c.teacher_id = ? AND a.archive_delete_flag = TRUE
\* AND c.archive_delete_flag = TRUE
OwnsActiveAnnouncement(tid, nid) ==
    /\ nid \in DOMAIN announcement
    /\ announcement[nid].active
    /\ OwnsActiveCourse(tid, announcement[nid].course_id)

AnnouncementFrame ==
    UNCHANGED <<people, classroom, enrollment, assignment, submission,
                material, now, inflight, conns>>

\* The request is bound to models.Announcement, which requires no field; the
\* foreign key of announcement.course_id is covered by the ownership check.
CreateAnnouncementHandler(uid, course, title) ==
    /\ RoomFor("announcement", MaxAnnouncements)
    /\ LET op == "CreateAnnouncementHandler"
           tid == ActiveTeacherIdOf(uid)
           fails(code) ==
               /\ resp' = Reply(op, "create", "announcement", uid, course, code,
                                NoData)
               /\ UNCHANGED <<announcement, nextId>>
       IN  IF RoleOf(uid) # "teacher" THEN fails(StatusForbidden)
           ELSE IF tid = 0 THEN fails(StatusInternalServerError)
           ELSE IF ~OwnsActiveCourse(tid, course) THEN fails(StatusForbidden)
           ELSE /\ announcement' = InsertRow(announcement, nextId.announcement,
                                             AnnouncementRow(course, title))
                /\ nextId' = Bump("announcement")
                /\ resp' = Reply(op, "create", "announcement", uid, course,
                                 StatusOK, [created |-> nextId.announcement])
    /\ AnnouncementFrame

UpdateAnnouncementHandler(uid, nid, title) ==
    /\ LET op == "UpdateAnnouncementHandler"
           tid == ActiveTeacherIdOf(uid)
           fails(code) ==
               /\ resp' = Reply(op, "update", "announcement", uid, nid, code, NoData)
               /\ UNCHANGED announcement
       IN  IF RoleOf(uid) # "teacher" THEN fails(StatusForbidden)
           ELSE IF tid = 0 THEN fails(StatusInternalServerError)
           ELSE IF ~OwnsActiveAnnouncement(tid, nid) THEN fails(StatusForbidden)
           ELSE /\ announcement' = [announcement EXCEPT ![nid].title = title]
                /\ resp' = Reply(op, "update", "announcement", uid, nid, StatusOK,
                                 NoData)
    /\ UNCHANGED nextId
    /\ AnnouncementFrame

DeleteAnnouncementHandler(uid, nid) ==
    /\ LET op == "DeleteAnnouncementHandler"
           tid == ActiveTeacherIdOf(uid)
           fails(code) ==
               /\ resp' = Reply(op, "delete", "announcement", uid, nid, code, NoData)
               /\ UNCHANGED announcement
       IN  IF RoleOf(uid) # "teacher" THEN fails(StatusForbidden)
           ELSE IF tid = 0 THEN fails(StatusInternalServerError)
           ELSE IF ~OwnsActiveAnnouncement(tid, nid) THEN fails(StatusForbidden)
           ELSE /\ announcement' = [announcement EXCEPT ![nid].active = FALSE]
                /\ resp' = Reply(op, "delete", "announcement", uid, nid, StatusOK,
                                 NoData)
    /\ UNCHANGED nextId
    /\ AnnouncementFrame

\* The handler built by UpdateAnnouncement(db) asks for a row of announcement
\* whose teacher_id column holds the caller's user id.  The schema has no
\* such column and no handler of the model writes one: the ownership query
\* either fails (500) or counts no row (403), and nothing is written.
UpdateAnnouncement(uid, nid, title) ==
    /\ \E code \in {StatusForbidden, StatusInternalServerError} :
          resp' = Reply("UpdateAnnouncement", "update", "announcement", uid, nid,
                        code, NoData)
    /\ UNCHANGED <<announcement, nextId>>
    /\ AnnouncementFrame

(***************************************************************************)
(* Submissions.  submission.go holds the generation that uses              *)
(* archive_delete_flag; classroom.go holds two further generations (_c1,   *)
(* _c2), which call the content column link.                               *)
(***************************************************************************)
\* score is a nullable column: {} is NULL, {n} the number n.
Null == {}

SubmissionRow(aid, sid, content) ==
    [assignment_id |-> aid, student_id |-> sid, content |-> content,
     submitted_at |-> now, score |-> Null, feedback |-> Absent,
     status |-> "submitted", active |-> TRUE]

SubmissionFrame ==
    UNCHANGED <<people, classroom, enrollment, assignment, material,
                announcement, now, inflight, conns>>

SubmissionReply(op, verb, uid, id, code, data) ==
    resp' = Reply(op, verb, "submission", uid, id, code, data)

InsertSubmission(op, uid, aid, sid, content, code) ==
    /\ submission' = InsertRow(submission, nextId.submission,
                               SubmissionRow(aid, sid, content))
    /\ nextId' = Bump("submission")
    /\ SubmissionReply(op, "create", uid, aid, code,
                       [created |-> nextId.submission])

\* The lookup as if no enrollment were stored.
NeverEnrolled(sid, course) == FALSE

\* enrollment WHERE student_id = ? AND course_id = ? AND archive_delete_flag = TRUE
ActivelyEnrolled(sid, course) ==
    \E e \in DOMAIN enrollment :
        /\ enrollment[e].student_id = sid
        /\ enrollment[e].course_id = course
        /\ enrollment[e].active

\* The lookup as if it never found a row.
NoActiveSubmissions(aid, sid) == {}

\* submission WHERE assignment_id = ? AND student_id = ? AND archive_delete_flag = TRUE
ActiveSubmissionsOf(aid, sid) ==
    {x \in DOMAIN submission :
        /\ submission[x].assignment_id = aid
        /\ submission[x].student_id = sid
        /\ submission[x].active}

\* A comparison that also refuses the due instant itself.
AtOrAfter(t, due) == t >= due

\* time.Now().After(dueDate)
After(t, due) == t > due

CreateSubmissionHandler(uid, aid, content) ==
    /\ nextId.submission <= MaxSubmissions
    /\ LET op == "CreateSubmissionHandler"
           sid == ActiveStudentIdOf(uid)
           fails(code) ==
               /\ SubmissionReply(op, "create", uid, aid, code, NoData)
               /\ UNCHANGED <<submission, nextId>>
       IN  IF RoleOf(uid) # "student" THEN fails(StatusForbidden)
           ELSE IF sid = 0 THEN fails(StatusNotFound)
           ELSE IF ~(aid \in DOMAIN assignment /\ assignment[aid].active)
           THEN fails(StatusNotFound)
           ELSE IF After(now, assignment[aid].due_date) THEN fails(StatusForbidden)
           ELSE IF ~ActivelyEnrolled(sid, assignment[aid].course_id)
           THEN fails(StatusForbidden)
           ELSE IF ActiveSubmissionsOf(aid, sid) # {} THEN fails(StatusBadRequest)
           ELSE InsertSubmission(op, uid, aid, sid, content, StatusOK)
    /\ SubmissionFrame

CreateSubmissionHandler_c1(uid, aid, content) ==
    /\ nextId.submission <= MaxSubmissions
    /\ LET op == "CreateSubmissionHandler_c1"
           sid == StudentIdOf(uid)
           fails(code) ==
               /\ SubmissionReply(op, "create", uid, aid, code, NoData)
               /\ UNCHANGED <<submission, nextId>>
       IN  IF RoleOf(uid) # "student" THEN fails(StatusForbidden)
           ELSE IF sid = 0 THEN fails(StatusForbidden)
           ELSE IF aid = Absent \/ content = Absent THEN fails(StatusBadRequest)
           ELSE IF aid \notin DOMAIN assignment THEN fails(StatusNotFound)
           ELSE InsertSubmission(op, uid, aid, sid, content, StatusCreated)
    /\ SubmissionFrame

\* No lookup of the assignment: only the foreign key of
\* submission.assignment_id refuses an unknown one.
CreateSubmissionHandler_c2(uid, aid, content) ==
    /\ nextId.submission <= MaxSubmissions
    /\ LET op == "CreateSubmissionHandler_c2"
           sid == StudentIdOf(uid)
           fails(code) ==
               /\ SubmissionReply(op, "create", uid, aid, code, NoData)
               /\ UNCHANGED <<submission, nextId>>
       IN  IF RoleOf(uid) # "student" THEN fails(StatusForbidden)
           ELSE IF aid = Absent \/ content = Absent THEN fails(StatusBadRequest)
           ELSE IF sid = 0 THEN fails(StatusNotFound)
           ELSE IF aid \notin DOMAIN assignment
           THEN fails(StatusInternalServerError)
           ELSE InsertSubmission(op, uid, aid, sid, content, StatusCreated)
    /\ SubmissionFrame

\* The update puts the row back to 'submitted'; score and feedback stay.
UpdateSubmissionHandler(uid, xid, content) ==
    /\ LET op == "UpdateSubmissionHandler"
           sid == ActiveStudentIdOf(uid)
           own == /\ xid \in DOMAIN submission
                  /\ submission[xid].student_id = sid
                  /\ submission[xid].active
           aid == submission[xid].assignment_id
           fails(code) ==
               /\ SubmissionReply(op, "update", uid, xid, code, NoData)
               /\ UNCHANGED submission
       IN  IF RoleOf(uid) # "student" THEN fails(StatusForbidden)
           ELSE IF sid = 0 THEN fails(StatusNotFound)
           ELSE IF ~own THEN fails(StatusNotFound)
           ELSE IF ~(aid \in DOMAIN assignment /\ assignment[aid].active)
           THEN fails(StatusInternalServerError)
           ELSE IF After(now, assignment[aid].due_date) THEN fails(StatusForbidden)
           ELSE /\ submission' = [submission EXCEPT
                                     ![xid].content = content,
                                     ![xid].submitted_at = now,
                                     ![xid].status = "submitted"]
                /\ SubmissionReply(op, "update", uid, xid, StatusOK, NoData)
    /\ UNCHANGED nextId
    /\ SubmissionFrame

(***************************************************************************)
(* Grading                                                                 *)
(***************************************************************************)
\* The join without its t.user_id = ? condition: any caller passes.
GradesAnySubmission(uid, xid) == xid \in DOMAIN submission

\* submission s JOIN assignment a JOIN classroom c JOIN teacher t
\* WHERE s.submission_id = ? AND t.user_id = ?
GradesByUser(uid, xid) ==
    /\ xid \in DOMAIN submission
    /\ OwnsAssignmentByUser(uid, submission[xid].assignment_id)

\* The same join with archive_delete_flag = TRUE on s, a, c and t.
GradesActiveByUser(uid, xid) ==
    /\ xid \in DOMAIN submission
    /\ submission[xid].active
    /\ LET aid == submission[xid].assignment_id
       IN  /\ aid \in DOMAIN assignment
           /\ assignment[aid].active
           /\ OwnsActiveCourse(ActiveTeacherIdOf(uid), assignment[aid].course_id)

\* The UPDATE without its status column.
GradedKeepsStatus(row, score, feedback) ==
    [row EXCEPT !.score = {score}, !.feedback = feedback]

\* UPDATE submission SET score = ?, feedback = ?, status = 'graded'
Graded(row, score, feedback) ==
    [row EXCEPT !.score = {score}, !.feedback = feedback, !.status = "graded"]

\* GradeRequest{Score, Feedback}
GradeRequest(score, feedback) == [score |-> score, feedback |-> feedback]

GradeFrame ==
    /\ UNCHANGED nextId
    /\ SubmissionFrame

GradeSubmissionHandler(uid, xid, score, feedback) ==
    /\ LET op == "GradeSubmissionHandler"
           fails(code) ==
               /\ SubmissionReply(op, "grade", uid, xid, code, GradeRequest(score, feedback))
               /\ UNCHANGED submission
       IN  IF RoleOf(uid) # "teacher" THEN fails(StatusForbidden)
           ELSE IF ~(xid \in DOMAIN submission /\ submission[xid].active)
           THEN fails(StatusNotFound)
           ELSE IF ~GradesActiveByUser(uid, xid) THEN fails(StatusForbidden)
           ELSE /\ submission' = [submission EXCEPT
                                     ![xid] = Graded(@, score, feedback)]
                /\ SubmissionReply(op, "grade", uid, xid, StatusOK,
                                   GradeRequest(score, feedback))
    /\ GradeFrame

\* The only generation that compares the score with max_points.
ScoreInRange(score, maxPoints) == ~(score < 0 \/ score > maxPoints)

GradeSubmissionHandler_c1(uid, xid, score, feedback) ==
    /\ LET op == "GradeSubmissionHandler_c1"
           maxPoints == assignment[submission[xid].assignment_id].max_points
           fails(code) ==
               /\ SubmissionReply(op, "grade", uid, xid, code, GradeRequest(score, feedback))
               /\ UNCHANGED submission
       IN  IF RoleOf(uid) # "teacher" THEN fails(StatusForbidden)
           ELSE IF ~GradesByUser(uid, xid) THEN fails(StatusForbidden)
           ELSE IF ~ScoreInRange(score, maxPoints) THEN fails(StatusBadRequest)
           ELSE /\ submission' = [submission EXCEPT
                                     ![xid] = Graded(@, score, feedback)]
                /\ SubmissionReply(op, "grade", uid, xid, StatusOK,
                                   GradeRequest(score, feedback))
    /\ GradeFrame

GradeSubmissionHandler_c2(uid, xid, score, feedback) ==
    /\ LET op == "GradeSubmissionHandler_c2"
           fails(code) ==
               /\ SubmissionReply(op, "grade", uid, xid, code, GradeRequest(score, feedback))
               /\ UNCHANGED submission
       IN  IF RoleOf(uid) # "teacher" THEN fails(StatusForbidden)
           ELSE IF ~GradesByUser(uid, xid) THEN fails(StatusNotFound)
           ELSE /\ submission' = [submission EXCEPT
                                     ![xid] = Graded(@, score, feedback)]
                /\ SubmissionReply(op, "grade", uid, xid, StatusOK,
                                   GradeRequest(score, feedback))
    /\ GradeFrame

\* One pass of the bulk-grade loop over the listed ids, in order.  Each
\* UPDATE ... WHERE submission_id = ? AND assignment_id = ? AND status !=
\* 'deleted' is applied to the table the earlier ones left.  RowsAffected
\* counts the rows an UPDATE changed (the connection does not set
\* clientFoundRows): a matching row that already holds the new values counts 0.
RECURSIVE BulkLoop(_, _, _, _, _, _, _)
BulkLoop(ids, i, table, aid, score, feedback, acc) ==
    IF i > Len(ids) THEN [table |-> table, success |-> acc.success,
                          failed |-> acc.failed]
    ELSE LET xid == ids[i]
             matches == /\ xid \in DOMAIN table
                        /\ table[xid].assignment_id = aid
                        /\ table[xid].status # "deleted"
             after == IF matches THEN Graded(table[xid], score, feedback)
                      ELSE table[xid]
             changed == matches /\ after # table[xid]
         IN  BulkLoop(ids, i + 1,
                      IF matches THEN [table EXCEPT ![xid] = after] ELSE table,
                      aid, score, feedback,
                      IF changed
                      THEN [acc EXCEPT !.success = @ + 1]
                      ELSE [acc EXCEPT !.failed = Append(@, xid)])

BulkStart == [success |-> 0, failed |-> <<>>]

\* BulkGradeRequest{SubmissionIDs, Score, Feedback}
BulkGradeRequest(ids, score, feedback) ==
    [ids |-> ids, score |-> score, feedback |-> feedback]

BulkGradeSubmissionsHandler_c1(uid, aid, ids, score, feedback) ==
    /\ LET op == "BulkGradeSubmissionsHandler_c1"
           out == BulkLoop(ids, 1, submission, aid, score, feedback, BulkStart)
           fails(code) ==
               /\ resp' = Reply(op, "bulkgrade", "assignment", uid, aid, code,
                                BulkGradeRequest(ids, score, feedback))
               /\ UNCHANGED submission
       IN  IF RoleOf(uid) # "teacher" THEN fails(StatusForbidden)
           ELSE IF Len(ids) = 0 THEN fails(StatusBadRequest)
           ELSE IF ~OwnsAssignmentByUser(uid, aid) THEN fails(StatusForbidden)
           ELSE IF ~ScoreInRange(score, assignment[aid].max_points)
           THEN fails(StatusBadRequest)
           ELSE /\ submission' = out.table
                /\ resp' = Reply(op, "bulkgrade", "assignment", uid, aid, StatusOK,
                                 [ids |-> ids, score |-> score,
                                  feedback |-> feedback,
                                  success_count |-> out.success,
                                  failed_ids |-> out.failed])
    /\ GradeFrame

\* This generation answers with a message only and checks no score.
BulkGradeSubmissionsHandler_c2(uid, aid, ids, score, feedback) ==
    /\ LET op == "BulkGradeSubmissionsHandler_c2"
           out == BulkLoop(ids, 1, submission, aid, score, feedback, BulkStart)
           fails(code) ==
               /\ resp' = Reply(op, "bulkgrade", "assignment", uid, aid, code,
                                BulkGradeRequest(ids, score, feedback))
               /\ UNCHANGED submission
       IN  IF RoleOf(uid) # "teacher" THEN fails(StatusForbidden)
           ELSE IF ~OwnsAssignmentByUser(uid, aid) THEN fails(StatusNotFound)
           ELSE /\ submission' = out.table
                /\ resp' = Reply(op, "bulkgrade", "assignment", uid, aid, StatusOK,
                                 BulkGradeRequest(ids, score, feedback))
    /\ GradeFrame

(***************************************************************************)
(* Initial states                                                          *)
(***************************************************************************)
FirstIds == [user |-> 1, teacher |-> 1, student |-> 1, classroom |-> 1,
             enrollment |-> 1, assignment |-> 1, submission |-> 1,
             material |-> 1, announcement |-> 1]

NoReply == Reply("none", "none", "none", 0, 0, 0, NoData)

\* The store right after the schema script ran.
InitEmpty ==
    /\ user = NoRows /\ teacher = NoRows /\ student = NoRows
    /\ classroom = NoRows /\ enrollment = NoRows /\ assignment = NoRows
    /\ submission = NoRows /\ material = NoRows /\ announcement = NoRows
    /\ nextId = FirstIds
    /\ now = 0
    /\ inflight = {}
    /\ conns = AllConnected
    /\ resp = NoReply

\* The store after four registrations: teacher A (user 1, teacher 1),
\* student P (user 2, student 1), student Q (user 3, student 2) and
\* teacher B (user 4, teacher 2).
SeedPassword == <<"U", "l", "l", "l", "l", "l", "l", "d">>

SeedUser(email, role) ==
    [email |-> email, role |-> role,
     password |-> GenerateFromPassword(SeedPassword), active |-> TRUE]

SeedUsers == <<SeedUser(1, "teacher"), SeedUser(2, "student"),
               SeedUser(3, "student"), SeedUser(4, "teacher")>>

SeedTeachers == <<ProfileRow(1), ProfileRow(4)>>

SeedStudents == <<ProfileRow(2), ProfileRow(3)>>

InitPeople ==
    /\ user = SeedUsers /\ teacher = SeedTeachers /\ student = SeedStudents
    /\ classroom = NoRows /\ enrollment = NoRows /\ assignment = NoRows
    /\ submission = NoRows /\ material = NoRows /\ announcement = NoRows
    /\ nextId = [FirstIds EXCEPT !.user = 5, !.teacher = 3, !.student = 3]
    /\ now = 0
    /\ inflight = {}
    /\ conns = AllConnected
    /\ resp = NoReply

\* Teacher A has created classroom 1 and teacher B classroom 2, each with
\* one assignment worth MaxPoints and due at time 1; student P is enrolled
\* in both classrooms and student Q in classroom 1.
SeedClassrooms == <<ClassroomRow(1, 1), ClassroomRow(2, 1)>>

SeedAssignment(course) ==
    [course_id |-> course, title |-> 1, due_date |-> 1,
     max_points |-> MaxPoints, active |-> TRUE]

SeedAssignments == <<SeedAssignment(1), SeedAssignment(2)>>

EnrollmentRow(sid, course) ==
    [student_id |-> sid, course_id |-> course, status |-> "active",
     active |-> TRUE]

SeedEnrollments == <<EnrollmentRow(1, 1), EnrollmentRow(1, 2), EnrollmentRow(2, 1)>>

InitCourses ==
    /\ user = SeedUsers /\ teacher = SeedTeachers /\ student = SeedStudents
    /\ classroom = SeedClassrooms /\ assignment = SeedAssignments
    /\ enrollment = SeedEnrollments
    /\ submission = NoRows /\ material = NoRows /\ announcement = NoRows
    /\ nextId = [FirstIds EXCEPT !.user = 5, !.teacher = 3, !.student = 3,
                                 !.classroom = 3, !.assignment = 3,
                                 !.enrollment = 4]
    /\ now = 0
    /\ inflight = {}
    /\ conns = AllConnected
    /\ resp = NoReply

(***************************************************************************)
(* Specification of registration                                           *)
(***************************************************************************)
RegisterRoot == \E req \in RegisterRequests, fail \in DbFailures :
                    RegisterHandler_root(req, fail)

\* registerHandler and RegisterHandler store the password whatever it
\* holds: they are sent the well-formed one and the short one.
UncheckedRequests ==
    {req \in RegisterRequests :
        ValidatePassword(req.password) \/ Len(req.password) < MinPasswordLen}

RegisterMain == \E req \in UncheckedRequests, fail \in DbFailures :
                    registerHandler(req, fail)

RegisterGin == \E req \in UncheckedRequests, fail \in DbFailures :
                    RegisterHandler(req, fail)

NextReg == RegisterRoot \/ RegisterMain \/ RegisterGin

SpecReg == InitEmpty /\ [][NextReg]_vars

(***************************************************************************)
(* C10: registration is one transactional unit.  Every user row with the   *)
(* role student or teacher has exactly the profile row of its role, every  *)
(* profile row belongs to a user row of that role, and a registration that *)
(* failed after its user insert left no user row behind and answered with  *)
(* an error.                                                               *)
(***************************************************************************)
UserHasItsProfile(u) ==
    /\ user[u].role = "teacher" =>
          \E t \in DOMAIN teacher : teacher[t].user_id = u
    /\ user[u].role = "student" =>
          \E s \in DOMAIN student : student[s].user_id = u

ProfileHasItsUser ==
    /\ \A t \in DOMAIN teacher :
          /\ teacher[t].user_id \in DOMAIN user
          /\ user[teacher[t].user_id].role = "teacher"
    /\ \A s \in DOMAIN student :
          /\ student[s].user_id \in DOMAIN user
          /\ user[student[s].user_id].role = "student"

C10_RegistrationAtomic ==
    /\ \A u \in DOMAIN user : UserHasItsProfile(u)
    /\ ProfileHasItsUser
    /\ (resp.kind = "user" /\ resp.verb = "create") =>
          /\ resp.data.created = 0 <=> IsError(resp)
          /\ resp.data.created # 0 =>
                /\ resp.data.created \in DOMAIN user
                /\ user[resp.data.created].email = resp.data.email
          /\ (resp.data.userInserted /\ resp.data.created = 0) =>
                ~EmailTaken(resp.data.email)

\* A registration failed after its user insert (the profile insert or the
\* commit returned an error) while an earlier registration is stored with
\* its profile.
C10_Witness ==
    /\ resp.kind = "user" /\ resp.verb = "create"
    /\ resp.data.userInserted /\ resp.data.created = 0
    /\ resp.code = StatusInternalServerError
    /\ \E u \in DOMAIN user : user[u].role \in {"student", "teacher"}
    /\ nextId.user > Cardinality(DOMAIN user) + 1

(***************************************************************************)
(* Specification of the teacher-side mutations: classrooms and the         *)
(* assignments, materials and announcements in them.                       *)
(***************************************************************************)
\* The callers of this specification: teachers A and B.
OwnCallers == {1, 4}

CourseIds == 1..MaxCourses
AssignmentIds == 1..MaxAssignments
MaterialIds == 1..MaxMaterials
AnnouncementIds == 1..MaxAnnouncements

\* A new row is given the first title; an update writes the last one.
NewTitles == {Absent, 1}
AnyTitles == {Absent, NumTitles}

FullAssignmentRequest(course, title) ==
    [course_id |-> course, title |-> title, due_date |-> 1,
     max_points |-> MaxPoints]

EmptyAssignmentRequest ==
    [course_id |-> Absent, title |-> Absent, due_date |-> Absent,
     max_points |-> Absent]

NewAssignmentRequests ==
    {FullAssignmentRequest(c, 1) : c \in CourseIds} \cup {EmptyAssignmentRequest}

AssignmentUpdates ==
    {FullAssignmentRequest(c, NumTitles) : c \in CourseIds}
        \cup {EmptyAssignmentRequest}

CreateClassroomStep ==
    \E uid \in OwnCallers, title \in NewTitles : CreateClassroomHandler(uid, title)

UpdateClassroomStep ==
    \E uid \in OwnCallers, course \in CourseIds, title \in AnyTitles :
        UpdateClassroomHandler(uid, course, title)

DeleteClassroomStep ==
    \E uid \in OwnCallers, course \in CourseIds : DeleteClassroomHandler(uid, course)

CreateAssignmentStep ==
    \E uid \in OwnCallers, req \in NewAssignmentRequests :
        \/ CreateAssignmentHandler_a1(uid, req)
        \/ CreateAssignmentHandler_a2(uid, req)
        \/ CreateAssignmentHandler_p4(uid, req)

UpdateAssignmentStep ==
    \E uid \in OwnCallers, aid \in AssignmentIds, req \in AssignmentUpdates :
        \/ UpdateAssignmentHandler_a1(uid, aid, req)
        \/ UpdateAssignmentHandler_a2(uid, aid, req)
        \/ UpdateAssignmentHandler_p4(uid, aid, req)

DeleteAssignmentStep ==
    \E uid \in OwnCallers, aid \in AssignmentIds :
        \/ DeleteAssignmentHandler_a1(uid, aid)
        \/ DeleteAssignmentHandler_a2(uid, aid)
        \/ DeleteAssignmentHandler_p4(uid, aid)

CreateContentStep ==
    \E uid \in OwnCallers, course \in CourseIds, title \in NewTitles :
        \/ CreateMaterial(uid, course, title)
        \/ CreateAnnouncementHandler(uid, course, title)

UpdateContentStep ==
    \E uid \in OwnCallers, id \in MaterialIds \cup AnnouncementIds,
       title \in AnyTitles :
        \/ UpdateMaterial(uid, id, title)
        \/ UpdateAnnouncementHandler(uid, id, title)
        \/ UpdateAnnouncement(uid, id, title)

DeleteContentStep ==
    \E uid \in OwnCallers, id \in MaterialIds \cup AnnouncementIds :
        \/ DeleteMaterial(uid, id)
        \/ DeleteAnnouncementHandler(uid, id)

NextOwn ==
    \/ CreateClassroomStep \/ UpdateClassroomStep \/ DeleteClassroomStep
    \/ CreateAssignmentStep \/ UpdateAssignmentStep \/ DeleteAssignmentStep
    \/ CreateContentStep \/ UpdateContentStep \/ DeleteContentStep

SpecOwn == InitPeople /\ [][NextOwn]_vars

(***************************************************************************)
(* Ownership as the claims state it                                        *)
(***************************************************************************)
\* Classroom course (of the state before the request) belongs to the
\* teacher profile of user uid.
IsOwnCourse(uid, course) ==
    /\ course \in DOMAIN classroom
    /\ \E t \in DOMAIN teacher :
          teacher[t].user_id = uid /\ classroom[course].teacher_id = t

\* The classroom a request is aimed at, as a set: the classroom itself, the
\* classroom named for a new child, or the classroom of the child or
\* submission the request names.  Empty when the request names nothing
\* that is stored.
CourseOfAssignment(aid) ==
    IF aid \in DOMAIN assignment THEN {assignment[aid].course_id} ELSE {}

TargetCourses(r) ==
    LET named ==
          IF r.kind = "classroom" /\ r.verb # "create" THEN {r.id}
          ELSE IF r.kind \in {"assignment", "material", "announcement"}
                  /\ r.verb = "create" THEN {r.id}
          ELSE IF r.kind = "assignment" THEN CourseOfAssignment(r.id)
          ELSE IF r.kind = "material" /\ r.id \in DOMAIN material
          THEN {material[r.id].course_id}
          ELSE IF r.kind = "announcement" /\ r.id \in DOMAIN announcement
          THEN {announcement[r.id].course_id}
          ELSE IF r.kind = "submission" /\ r.id \in DOMAIN submission
          THEN CourseOfAssignment(submission[r.id].assignment_id)
          ELSE {}
    IN  named \cap DOMAIN classroom

MutatingVerbs == {"create", "update", "delete", "grade", "bulkgrade"}

\* The step answers a mutating request of a teacher.
TeacherMutation ==
    /\ resp'.verb \in MutatingVerbs
    /\ resp'.kind \in {"classroom", "assignment", "material", "announcement",
                       "submission"}
    /\ resp'.uid \in DOMAIN user
    /\ user[resp'.uid].role = "teacher"

(***************************************************************************)
(* C1: a mutating call of a teacher on a classroom another teacher created *)
(* or on a child of it (update or delete of the classroom; create, update  *)
(* or delete of an assignment, material or announcement in it; grading a   *)
(* submission in it) is answered with an error, never with a success.      *)
(***************************************************************************)
C1_NonOwnerStep ==
    /\ TeacherMutation
    /\ \E c \in TargetCourses(resp') : ~IsOwnCourse(resp'.uid, c)

C1_NonOwnerRefused == [][C1_NonOwnerStep => IsError(resp')]_vars

(***************************************************************************)
(* C2: a mutating request changes only classrooms of the calling teacher   *)
(* and their children.  Every classroom of another teacher and every child *)
(* of such a classroom is left as it was, and no assignment, material or   *)
(* announcement is created in, or moved into, a classroom the caller does  *)
(* not own.                                                                *)
(***************************************************************************)
KeptRow(before, after, id) == id \in DOMAIN after /\ after[id] = before[id]

ForeignRowsKept(uid) ==
    /\ \A c \in DOMAIN classroom :
          ~IsOwnCourse(uid, c) => KeptRow(classroom, classroom', c)
    /\ \A a \in DOMAIN assignment :
          ~IsOwnCourse(uid, assignment[a].course_id) =>
              KeptRow(assignment, assignment', a)
    /\ \A m \in DOMAIN material :
          ~IsOwnCourse(uid, material[m].course_id) =>
              KeptRow(material, material', m)
    /\ \A n \in DOMAIN announcement :
          ~IsOwnCourse(uid, announcement[n].course_id) =>
              KeptRow(announcement, announcement', n)

EntersCourse(before, after, id) ==
    id \notin DOMAIN before \/ after[id].course_id # before[id].course_id

NothingEntersForeignCourse(uid) ==
    /\ \A a \in DOMAIN assignment' :
          EntersCourse(assignment, assignment', a) =>
              IsOwnCourse(uid, assignment'[a].course_id)
    /\ \A m \in DOMAIN material' :
          EntersCourse(material, material', m) =>
              IsOwnCourse(uid, material'[m].course_id)
    /\ \A n \in DOMAIN announcement' :
          EntersCourse(announcement, announcement', n) =>
              IsOwnCourse(uid, announcement'[n].course_id)

C2_TeacherFrame ==
    [][(resp'.verb \in MutatingVerbs /\ resp'.uid \in DOMAIN user) =>
          /\ ForeignRowsKept(resp'.uid)
          /\ NothingEntersForeignCourse(resp'.uid)]_vars

(***************************************************************************)
(* Specification of submitting and grading                                 *)
(***************************************************************************)
SubmissionIds == 1..MaxSubmissions

\* The scores a grade request carries: below the range, its two ends, and
\* above it.
GradeScores == {-1, 0, MaxPoints, MaxPoints + 1}

\* Student P, who is enrolled in both seeded classrooms.
Submitters == {2}

\* Both teachers.
Graders == {1, 4}

\* max_points is set to every value of 1..MaxPoints; nothing else is sent.
PointsUpdate(points) ==
    [course_id |-> Absent, title |-> Absent, due_date |-> Absent,
     max_points |-> points]

CreateSubmissionStep ==
    \E uid \in Submitters, aid \in AssignmentIds :
        \/ CreateSubmissionHandler(uid, aid, 1)
        \/ CreateSubmissionHandler_c1(uid, aid, 1)
        \/ CreateSubmissionHandler_c2(uid, aid, 1)

UpdateSubmissionStep ==
    \E uid \in Submitters, xid \in SubmissionIds :
        UpdateSubmissionHandler(uid, xid, 1)

GradeStep ==
    \E uid \in Graders, xid \in SubmissionIds, score \in GradeScores :
        \/ GradeSubmissionHandler(uid, xid, score, 1)
        \/ GradeSubmissionHandler_c1(uid, xid, score, 1)
        \/ GradeSubmissionHandler_c2(uid, xid, score, 1)

LowerPointsStep ==
    \E uid \in Graders, aid \in AssignmentIds, points \in 1..MaxPoints :
        UpdateAssignmentHandler_a1(uid, aid, PointsUpdate(points))

NextGrade ==
    CreateSubmissionStep \/ UpdateSubmissionStep \/ GradeStep \/ LowerPointsStep

SpecGrade == InitCourses /\ [][NextGrade]_vars

\* Grading alone: student P submits through the handler of submission.go
\* and the teachers grade through the three grading handlers.
SubmitStep ==
    \E uid \in Submitters, aid \in AssignmentIds :
        CreateSubmissionHandler(uid, aid, 1)

NextMark == SubmitStep \/ GradeStep

SpecMark == InitCourses /\ [][NextMark]_vars

(***************************************************************************)
(* C3: when a teacher grades a submission whose assignment is in a         *)
(* classroom of another teacher, the call is refused (403, or 404 by the   *)
(* generation that answers "not found or access denied") and the           *)
(* submission's score, feedback and status are what they were.             *)
(***************************************************************************)
C3_ForeignGradeStep ==
    /\ resp'.verb = "grade" /\ resp'.kind = "submission"
    /\ resp'.uid \in DOMAIN user /\ user[resp'.uid].role = "teacher"
    /\ resp'.id \in DOMAIN submission
    /\ \E c \in CourseOfAssignment(submission[resp'.id].assignment_id) :
          c \in DOMAIN classroom /\ ~IsOwnCourse(resp'.uid, c)

GradeFieldsKept(xid) ==
    /\ xid \in DOMAIN submission'
    /\ submission'[xid].score = submission[xid].score
    /\ submission'[xid].feedback = submission[xid].feedback
    /\ submission'[xid].status = submission[xid].status

C3_ForeignGradeRefused ==
    [][C3_ForeignGradeStep =>
          /\ resp'.code \in {StatusForbidden, StatusNotFound}
          /\ GradeFieldsKept(resp'.id)]_vars

\* C3 as the specification words it: the answer is an authorization error.
C3_ForeignGradeForbidden ==
    [][C3_ForeignGradeStep =>
          /\ resp'.code = StatusForbidden
          /\ GradeFieldsKept(resp'.id)]_vars

\* Teacher A was refused the grading of a submission in teacher B's
\* classroom that B had graded before with another score.
C3_Witness ==
    /\ resp.verb = "grade" /\ resp.kind = "submission"
    /\ resp.code \in {StatusForbidden, StatusNotFound}
    /\ resp.uid \in DOMAIN user /\ user[resp.uid].role = "teacher"
    /\ resp.id \in DOMAIN submission
    /\ submission[resp.id].status = "graded"
    /\ submission[resp.id].score # {resp.data.score}
    /\ \E c \in CourseOfAssignment(submission[resp.id].assignment_id) :
          c \in DOMAIN classroom /\ ~IsOwnCourse(resp.uid, c)

(***************************************************************************)
(* C4: a grade request of the owning teacher with a score below 0 or above *)
(* the assignment's max_points is answered 400 and leaves the submission   *)
(* as it was; with a score of exactly 0 or exactly max_points it succeeds  *)
(* and the submission is graded with that score.                           *)
(***************************************************************************)
C4_OwnerGradeStep ==
    /\ resp'.verb = "grade" /\ resp'.kind = "submission"
    /\ resp'.uid \in DOMAIN user /\ user[resp'.uid].role = "teacher"
    /\ resp'.id \in DOMAIN submission
    /\ submission[resp'.id].active
    /\ \E c \in CourseOfAssignment(submission[resp'.id].assignment_id) :
          IsOwnCourse(resp'.uid, c)

MaxPointsOf(xid) == assignment[submission[xid].assignment_id].max_points

C4_GradingBounds ==
    [][C4_OwnerGradeStep =>
          LET score == resp'.data.score
              most == MaxPointsOf(resp'.id)
          IN  /\ (score < 0 \/ score > most) =>
                    /\ resp'.code = StatusBadRequest
                    /\ submission'[resp'.id] = submission[resp'.id]
              /\ (score = 0 \/ score = most) =>
                    /\ ~IsError(resp')
                    /\ submission'[resp'.id].score = {score}
                    /\ submission'[resp'.id].status = "graded"]_vars

(***************************************************************************)
(* C5: in every reachable state the score of every submission is NULL or   *)
(* lies between 0 and the max_points of the submission's assignment.       *)
(***************************************************************************)
C5_ScoreWithinMaxPoints ==
    \A x \in DOMAIN submission :
        \A v \in submission[x].score :
            /\ submission[x].assignment_id \in DOMAIN assignment
            /\ 0 <= v /\ v <= MaxPointsOf(x)

(***************************************************************************)
(* The seeded classrooms in use: two submissions to assignment 1, by       *)
(* students P and Q, and a material and an announcement in classroom 1.    *)
(***************************************************************************)
SeedSubmissions == <<SubmissionRow(1, 1, 1), SubmissionRow(1, 2, 1)>>

SeedMaterials == <<MaterialRow(1, 1)>>

SeedAnnouncements == <<AnnouncementRow(1, 1)>>

InitSchool ==
    /\ now = 0
    /\ inflight = {}
    /\ conns = AllConnected
    /\ user = SeedUsers /\ teacher = SeedTeachers /\ student = SeedStudents
    /\ classroom = SeedClassrooms /\ assignment = SeedAssignments
    /\ enrollment = SeedEnrollments /\ submission = SeedSubmissions
    /\ material = SeedMaterials /\ announcement = SeedAnnouncements
    /\ nextId = [FirstIds EXCEPT !.user = 5, !.teacher = 3, !.student = 3,
                                 !.classroom = 3, !.assignment = 3,
                                 !.enrollment = 4, !.submission = 3,
                                 !.material = 2, !.announcement = 2]
    /\ resp = NoReply

\* The ids a request lists: the stored submissions and one id past them.
BulkIds == 1..(MaxSubmissions + 1)

\* Every list of at most two ids, and the list of all ids.
BulkIdLists ==
    {<<>>} \cup [1..1 -> BulkIds] \cup [1..2 -> BulkIds]
        \cup {[i \in BulkIds |-> i]}

BulkScores == {0, MaxPoints, MaxPoints + 1}

BulkGradeStep ==
    \E uid \in Graders, aid \in AssignmentIds, ids \in BulkIdLists,
       score \in BulkScores :
        \/ BulkGradeSubmissionsHandler_c1(uid, aid, ids, score, 1)
        \/ BulkGradeSubmissionsHandler_c2(uid, aid, ids, score, 1)

NextBulk == BulkGradeStep

SpecBulk == InitSchool /\ [][NextBulk]_vars

(***************************************************************************)
(* C9: bulk-grade by the owning teacher with a score in range and a        *)
(* non-empty list succeeds; every listed id that is a non-deleted          *)
(* submission of the assignment ends graded with the given score and       *)
(* feedback, every other listed id is left as it was and is reported in    *)
(* failed_ids, and success_count is the number of ids graded.              *)
(***************************************************************************)
Listed(ids) == {ids[i] : i \in 1..Len(ids)}

GradableIn(aid, ids) ==
    {x \in Listed(ids) : /\ x \in DOMAIN submission
                         /\ submission[x].assignment_id = aid
                         /\ submission[x].status # "deleted"}

C9_OwnerBulkStep ==
    /\ resp'.verb = "bulkgrade"
    /\ OwnsAssignmentByUser(resp'.uid, resp'.id)
    /\ Len(resp'.data.ids) > 0
    /\ ScoreInRange(resp'.data.score, assignment[resp'.id].max_points)

C9_BulkGradePartial ==
    [][C9_OwnerBulkStep =>
          LET req == resp'.data
              good == GradableIn(resp'.id, req.ids)
          IN  /\ ~IsError(resp')
              /\ \A x \in good :
                    submission'[x] = Graded(submission[x], req.score, req.feedback)
              /\ \A x \in (Listed(req.ids) \ good) \cap DOMAIN submission :
                    submission'[x] = submission[x]
              /\ "failed_ids" \in DOMAIN req /\ "success_count" \in DOMAIN req
              /\ Listed(req.failed_ids) = Listed(req.ids) \ good
              /\ req.success_count = Cardinality(good)]_vars

(***************************************************************************)
(* Enrollment                                                              *)
(***************************************************************************)
EnrollmentFrame == UNCHANGED <<people, courseware, submission, now, inflight, conns>>

\* The table without its unique key.
NoEnrollmentRow(sid, course) == FALSE

\* uq_student_course: a row of the pair exists, whatever its flag.
EnrollmentRowExists(sid, course) ==
    \E e \in DOMAIN enrollment :
        enrollment[e].student_id = sid /\ enrollment[e].course_id = course

\* INSERT INTO enrollment ...: the statement takes an AUTO_INCREMENT value
\* and fails on the unique key or on the foreign key to classroom.
InsertEnrollment(op, uid, sid, course) ==
    /\ nextId.enrollment <= MaxEnrollments
    /\ nextId' = Bump("enrollment")
    /\ IF EnrollmentRowExists(sid, course) \/ course \notin DOMAIN classroom
       THEN /\ UNCHANGED enrollment
            /\ resp' = Reply(op, "enroll", "classroom", uid, course,
                             StatusInternalServerError, NoData)
       ELSE /\ enrollment' = InsertRow(enrollment, nextId.enrollment,
                                       EnrollmentRow(sid, course))
            /\ resp' = Reply(op, "enroll", "classroom", uid, course, StatusOK,
                             [created |-> nextId.enrollment])

\* The name of a user is modelled by the user's id; Absent is "".
\* The LEFT JOIN that finds no user: NullString.String is "".
NoTeacherName(course) == EmptyName

TeacherNameOf(course) == NameOf(teacher[classroom[course].teacher_id].user_id)

EnrollStudentHandler_p5(uid, course, teacherName) ==
    /\ LET op == "EnrollStudentHandler_p5"
           sid == ActiveStudentIdOf(uid)
           fails(code) ==
               /\ resp' = Reply(op, "enroll", "classroom", uid, course, code, NoData)
               /\ UNCHANGED <<enrollment, nextId>>
       IN  IF RoleOf(uid) # "student" THEN fails(StatusForbidden)
           ELSE IF course <= 0 \/ teacherName = EmptyName THEN fails(StatusBadRequest)
           ELSE IF sid = 0 THEN fails(StatusInternalServerError)
           ELSE IF ~(course \in DOMAIN classroom /\ classroom[course].active)
           THEN fails(StatusNotFound)
           ELSE IF ~EqualFold(TrimSpace(teacherName), TrimSpace(TeacherNameOf(course)))
           THEN fails(StatusBadRequest)
           ELSE IF ActivelyEnrolled(sid, course) THEN fails(StatusBadRequest)
           ELSE InsertEnrollment(op, uid, sid, course)
    /\ EnrollmentFrame

EnrollStudentHandler(uid, course) ==
    /\ LET op == "EnrollStudentHandler"
           sid == ActiveStudentIdOf(uid)
           fails(code) ==
               /\ resp' = Reply(op, "enroll", "classroom", uid, course, code, NoData)
               /\ UNCHANGED <<enrollment, nextId>>
       IN  IF RoleOf(uid) # "student" THEN fails(StatusForbidden)
           ELSE IF sid = 0 THEN fails(StatusInternalServerError)
           ELSE IF ActivelyEnrolled(sid, course) THEN fails(StatusBadRequest)
           ELSE InsertEnrollment(op, uid, sid, course)
    /\ EnrollmentFrame

\* UPDATE enrollment SET archive_delete_flag = FALSE
UnenrollStudentHandler(uid, eid) ==
    /\ LET op == "UnenrollStudentHandler"
           sid == ActiveStudentIdOf(uid)
           own == /\ eid \in DOMAIN enrollment
                  /\ enrollment[eid].student_id = sid
                  /\ enrollment[eid].active
           fails(code) ==
               /\ resp' = Reply(op, "unenroll", "enrollment", uid, eid, code, NoData)
               /\ UNCHANGED enrollment
       IN  IF RoleOf(uid) # "student" THEN fails(StatusForbidden)
           ELSE IF sid = 0 THEN fails(StatusInternalServerError)
           ELSE IF ~own THEN fails(StatusNotFound)
           ELSE /\ enrollment' = [enrollment EXCEPT ![eid].active = FALSE]
                /\ resp' = Reply(op, "unenroll", "enrollment", uid, eid, StatusOK,
                                 NoData)
    /\ UNCHANGED nextId
    /\ EnrollmentFrame

(***************************************************************************)
(* Reads.  A read answers with the ids of the rows it returns.             *)
(***************************************************************************)
ReadFrame ==
    UNCHANGED <<people, courseware, enrollment, submission, nextId, now, inflight, conns>>

Rows(ids) == [rows |-> ids]

Listing(op, kind, uid, course, code, data) ==
    resp' = Reply(op, "list", kind, uid, course, code, data)

AssignmentsOf(course) == {a \in DOMAIN assignment : assignment[a].course_id = course}

ActiveAssignmentsOf(course) == {a \in AssignmentsOf(course) : assignment[a].active}

\* enrollment e WHERE e.course_id = ? AND e.student_id =
\*     (SELECT student_id FROM student WHERE user_id = ?)
EnrolledByUser(uid, course) ==
    StudentIdOf(uid) # 0 /\ EnrollmentRowExists(StudentIdOf(uid), course)

\* The role branches the by-classroom list handlers share: the teacher owns
\* the active classroom, the student has an active enrollment.
ClassroomGate(uid, course) ==
    IF RoleOf(uid) = "teacher"
    THEN IF ActiveTeacherIdOf(uid) = 0 THEN StatusInternalServerError
         ELSE IF ~OwnsActiveCourse(ActiveTeacherIdOf(uid), course)
         THEN StatusForbidden
         ELSE StatusOK
    ELSE IF RoleOf(uid) = "student"
    THEN IF ActiveStudentIdOf(uid) = 0 THEN StatusInternalServerError
         ELSE IF ~ActivelyEnrolled(ActiveStudentIdOf(uid), course)
         THEN StatusForbidden
         ELSE StatusOK
    ELSE StatusForbidden

GetClassroomDetailsHandler(uid, course) ==
    /\ LET op == "GetClassroomDetailsHandler"
           tid == TeacherIdOf(uid)
           says(code, data) ==
               resp' = Reply(op, "get", "classroom", uid, course, code, data)
       IN  IF RoleOf(uid) # "teacher" THEN says(StatusForbidden, NoData)
           ELSE IF tid = 0 THEN says(StatusNotFound, NoData)
           ELSE IF ~(course \in DOMAIN classroom
                     /\ classroom[course].teacher_id = tid)
           THEN says(StatusNotFound, NoData)
           ELSE says(StatusOK, Rows({course}))
    /\ ReadFrame

\* A float64 the handlers send: num/den.
Fraction(num, den) == [num |-> num, den |-> den]

\* What a float64 that was never assigned, or COALESCE(NULL, 0), holds.
ZeroFraction == Fraction(0, 1)

\* float64(numerator) * 100 / float64(denominator), 0 over no rows.
calculatePercentage(numerator, denominator) ==
    IF denominator = 0 THEN ZeroFraction
    ELSE Fraction(numerator * Percent, denominator)

\* The count of enrollment WHERE course_id = ? AND status = 'enrolled'
getClassSize(course) ==
    Cardinality({e \in DOMAIN enrollment :
                   /\ enrollment[e].course_id = course
                   /\ enrollment[e].status = "enrolled"})

\* assignment a LEFT JOIN submission s ON a.assignment_id = s.assignment_id
\* AND s.status != 'deleted', counted per assignment, and the percentages
\* computed from the counts and the class size.
AssignmentCounts(aid, course) ==
    LET joined == {x \in DOMAIN submission :
                     /\ submission[x].assignment_id = aid
                     /\ submission[x].status # "deleted"}
        withScore == {x \in joined : submission[x].score # Null}
        classSize == getClassSize(course)
    IN  [submission_count |-> Cardinality(joined),
         graded_count |-> Cardinality(withScore),
         completion_percent |->
             calculatePercentage(Cardinality(joined), classSize),
         graded_percent |->
             calculatePercentage(Cardinality(withScore), Cardinality(joined))]

GetAssignmentsByClassroomHandler_a1(uid, course) ==
    /\ LET op == "GetAssignmentsByClassroomHandler_a1"
       IN  IF ~OwnsCourseByUser(uid, course)
           THEN Listing(op, "assignment", uid, course, StatusForbidden, NoData)
           ELSE Listing(op, "assignment", uid, course, StatusOK,
                        [rows |-> AssignmentsOf(course),
                         stats |-> [a \in AssignmentsOf(course) |->
                                       AssignmentCounts(a, course)]])
    /\ ReadFrame

GetAssignmentsByClassroomHandler_a2(uid, course) ==
    /\ LET op == "GetAssignmentsByClassroomHandler_a2"
           gate == ClassroomGate(uid, course)
       IN  IF gate # StatusOK
           THEN Listing(op, "assignment", uid, course, gate, NoData)
           ELSE Listing(op, "assignment", uid, course, StatusOK,
                        Rows(ActiveAssignmentsOf(course)))
    /\ ReadFrame

GetAssignmentsByClassroomHandler_p4(uid, course) ==
    /\ LET op == "GetAssignmentsByClassroomHandler_p4"
           gate == ClassroomGate(uid, course)
       IN  IF ~(course \in DOMAIN classroom /\ classroom[course].active)
           THEN Listing(op, "assignment", uid, course, StatusNotFound, NoData)
           ELSE IF gate # StatusOK
           THEN Listing(op, "assignment", uid, course, gate, NoData)
           ELSE Listing(op, "assignment", uid, course, StatusOK,
                        Rows(ActiveAssignmentsOf(course)))
    /\ ReadFrame

GetMaterialsByClassroom(uid, course) ==
    /\ LET op == "GetMaterialsByClassroom"
           count == IF RoleOf(uid) = "teacher" THEN OwnsCourseByUser(uid, course)
                    ELSE IF RoleOf(uid) = "student"
                    THEN EnrolledByUser(uid, course)
                    ELSE RoleOf(uid) \in {"admin", "dev"}
       IN  IF ~count
           THEN Listing(op, "material", uid, course, StatusForbidden, NoData)
           ELSE Listing(op, "material", uid, course, StatusOK,
                        Rows({m \in DOMAIN material :
                                 material[m].course_id = course}))
    /\ ReadFrame

GetAnnouncementsByClassroomHandler(uid, course) ==
    /\ LET op == "GetAnnouncementsByClassroomHandler"
           gate == ClassroomGate(uid, course)
       IN  IF gate # StatusOK
           THEN Listing(op, "announcement", uid, course, gate, NoData)
           ELSE Listing(op, "announcement", uid, course, StatusOK,
                        Rows({n \in DOMAIN announcement :
                                 /\ announcement[n].course_id = course
                                 /\ announcement[n].active}))
    /\ ReadFrame

Getting(op, uid, xid, code, data) ==
    resp' = Reply(op, "get", "submission", uid, xid, code, data)

GetSubmissionHandler(uid, xid) ==
    /\ LET op == "GetSubmissionHandler"
           sid == ActiveStudentIdOf(uid)
       IN  IF RoleOf(uid) # "student" THEN Getting(op, uid, xid, StatusForbidden, NoData)
           ELSE IF sid = 0 THEN Getting(op, uid, xid, StatusNotFound, NoData)
           ELSE IF ~(/\ xid \in DOMAIN submission
                     /\ submission[xid].student_id = sid
                     /\ submission[xid].active)
           THEN Getting(op, uid, xid, StatusNotFound, NoData)
           ELSE Getting(op, uid, xid, StatusOK, Rows({xid}))
    /\ ReadFrame

\* Lateness against the due date the assignment was seeded with.
IsLateBySeed(xid) == After(submission[xid].submitted_at, 1)

\* submission.IsLate = submission.SubmittedAt.After(dueDate)
IsLate(xid) ==
    After(submission[xid].submitted_at,
          assignment[submission[xid].assignment_id].due_date)

\* The rows of a reply, and those among them reported with is_late true.
WithLateness(ids) == [rows |-> ids, late |-> {x \in ids : IsLate(x)}]

\* A row scans into SubmissionResponse: int score, string feedback.
Scans(xid) == submission[xid].score # Null /\ submission[xid].feedback # Absent

\* submission s JOIN user u ON s.student_id = u.user_id, with
\* AND s.student_id = ? bound to the token's user id for a student; the
\* row is scanned into an int score and a string feedback, which NULL fails.
GetSubmissionHandler_c1(uid, xid) ==
    /\ LET op == "GetSubmissionHandler_c1"
           joined == /\ xid \in DOMAIN submission
                     /\ submission[xid].student_id \in DOMAIN user
           found == IF RoleOf(uid) = "student"
                    THEN joined /\ submission[xid].student_id = uid
                    ELSE joined
       IN  IF RoleOf(uid) \notin {"student", "teacher"}
           THEN Getting(op, uid, xid, StatusForbidden, NoData)
           ELSE IF RoleOf(uid) = "teacher" /\ ~GradesByUser(uid, xid)
           THEN Getting(op, uid, xid, StatusForbidden, NoData)
           ELSE IF ~found THEN Getting(op, uid, xid, StatusNotFound, NoData)
           ELSE IF ~Scans(xid)
           THEN Getting(op, uid, xid, StatusInternalServerError, NoData)
           ELSE Getting(op, uid, xid, StatusOK, WithLateness({xid}))
    /\ ReadFrame

\* The list of a teacher's assignment: rows that do not scan are skipped.
GetAssignmentSubmissionsHandler(uid, aid) ==
    /\ LET op == "GetAssignmentSubmissionsHandler"
           says(code, data) == Listing(op, "submission", uid, aid, code, data)
       IN  IF RoleOf(uid) # "teacher" THEN says(StatusForbidden, NoData)
           ELSE IF ~OwnsAssignmentByUser(uid, aid) THEN says(StatusNotFound, NoData)
           ELSE says(StatusOK,
                     WithLateness({x \in DOMAIN submission :
                                     /\ submission[x].assignment_id = aid
                                     /\ submission[x].status # "deleted"
                                     /\ submission[x].student_id \in DOMAIN user
                                     /\ Scans(x)}))
    /\ ReadFrame

GetSubmissionHandler_c2(uid, xid) ==
    /\ LET op == "GetSubmissionHandler_c2"
       IN  IF RoleOf(uid) # "teacher" THEN Getting(op, uid, xid, StatusForbidden, NoData)
           ELSE IF ~GradesByUser(uid, xid)
           THEN Getting(op, uid, xid, StatusNotFound, NoData)
           ELSE IF ~(/\ submission[xid].status # "deleted"
                     /\ submission[xid].student_id \in DOMAIN student)
           THEN Getting(op, uid, xid, StatusNotFound, NoData)
           ELSE Getting(op, uid, xid, StatusOK, WithLateness({xid}))
    /\ ReadFrame

(***************************************************************************)
(* Enrollment and reads over the seeded classrooms                         *)
(***************************************************************************)
Students == {2, 3}

Readers == {1, 2, 3, 4}

EnrollmentIds == 1..MaxEnrollments

\* A teacher name that is missing, teacher A's and teacher B's.
TeacherNames == {EmptyName, NameOf(1), NameOf(4)}

EnrollStep ==
    \E uid \in Students, course \in CourseIds :
        \/ \E name \in TeacherNames : EnrollStudentHandler_p5(uid, course, name)
        \/ EnrollStudentHandler(uid, course)

UnenrollStep ==
    \E uid \in Students, eid \in EnrollmentIds : UnenrollStudentHandler(uid, eid)

RemoveClassroomStep ==
    \E uid \in Graders, course \in CourseIds : DeleteClassroomHandler(uid, course)

ReadClassroomStep ==
    \E uid \in Readers, course \in CourseIds :
        \/ GetClassroomDetailsHandler(uid, course)
        \/ GetAssignmentsByClassroomHandler_a1(uid, course)
        \/ GetAssignmentsByClassroomHandler_a2(uid, course)
        \/ GetAssignmentsByClassroomHandler_p4(uid, course)
        \/ GetMaterialsByClassroom(uid, course)
        \/ GetAnnouncementsByClassroomHandler(uid, course)

NextRead == EnrollStep \/ UnenrollStep \/ RemoveClassroomStep \/ ReadClassroomStep

SpecRead == InitSchool /\ [][NextRead]_vars

(***************************************************************************)
(* C6: a student reads the classroom, assignment, material or announcement *)
(* data of a course successfully if and only if an active enrollment row   *)
(* of the student and the course exists at the time of the read.           *)
(***************************************************************************)
ClassroomKinds == {"classroom", "assignment", "material", "announcement"}

HasActiveEnrollment(uid, course) ==
    \E x \in StudentIdsOf(uid) : ActivelyEnrolled(x, course)

C6_StudentReadStep ==
    /\ resp'.verb \in {"list", "get"}
    /\ resp'.kind \in ClassroomKinds
    /\ resp'.uid \in DOMAIN user /\ user[resp'.uid].role = "student"

C6_ReadIffEnrolled ==
    [][C6_StudentReadStep =>
          (~IsError(resp') <=> HasActiveEnrollment(resp'.uid, resp'.id))]_vars

(***************************************************************************)
(* C8: a successful classroom delete keeps the rows of the classroom and   *)
(* of its children in storage, the classroom archived; and every list or   *)
(* get for a deleted classroom answers 404.                                *)
(***************************************************************************)
\* Ids are never reused: an id below the counter without an active row is
\* the id of a deleted classroom.
DeletedCourse(course) ==
    /\ course \in 1..(nextId.classroom - 1)
    /\ course \notin DOMAIN classroom \/ ~classroom[course].active

C8_DeleteStep ==
    resp'.verb = "delete" /\ resp'.kind = "classroom" /\ ~IsError(resp')

C8_ReadOfDeleted ==
    /\ resp'.verb \in {"list", "get"}
    /\ resp'.kind \in ClassroomKinds
    /\ DeletedCourse(resp'.id)

C8_SoftDeletedClassroom ==
    [][/\ C8_DeleteStep =>
             /\ resp'.id \in DOMAIN classroom'
             /\ ~classroom'[resp'.id].active
             /\ DOMAIN assignment' = DOMAIN assignment
             /\ DOMAIN material' = DOMAIN material
             /\ DOMAIN announcement' = DOMAIN announcement
             /\ DOMAIN submission' = DOMAIN submission
       /\ C8_ReadOfDeleted => resp'.code = StatusNotFound]_vars

(***************************************************************************)
(* Submissions as their students and teachers see them                     *)
(***************************************************************************)
ReadSubmissionStep ==
    \E uid \in Readers, xid \in SubmissionIds :
        \/ GetSubmissionHandler(uid, xid)
        \/ GetSubmissionHandler_c1(uid, xid)
        \/ GetSubmissionHandler_c2(uid, xid)

ReviseSubmissionStep ==
    \E uid \in Students, xid \in SubmissionIds, content \in {1, 2} :
        UpdateSubmissionHandler(uid, xid, content)

MarkStep ==
    \E uid \in Graders, xid \in SubmissionIds, score \in {0, MaxPoints} :
        GradeSubmissionHandler_c1(uid, xid, score, 1)

NextSub == ReadSubmissionStep \/ ReviseSubmissionStep \/ MarkStep

SpecSub == InitSchool /\ [][NextSub]_vars

(***************************************************************************)
(* C7: when a student gets or updates a submission whose student_id is not *)
(* the id of the student's own profile, the call is an error, discloses    *)
(* no submission data and changes nothing.                                 *)
(***************************************************************************)
C7_ForeignSubmissionStep ==
    /\ resp'.verb \in {"get", "update"} /\ resp'.kind = "submission"
    /\ resp'.uid \in DOMAIN user /\ user[resp'.uid].role = "student"
    /\ resp'.id \in DOMAIN submission
    /\ submission[resp'.id].student_id \notin StudentIdsOf(resp'.uid)

C7_OwnSubmissionsOnly ==
    [][C7_ForeignSubmissionStep =>
          /\ IsError(resp')
          /\ resp'.data = NoData
          /\ submission' = submission]_vars

(***************************************************************************)
(* The submission handlers of submission.go, with a clock.  Students P     *)
(* and Q create and update, both teachers grade, and time passes the due   *)
(* date of the seeded assignments.                                         *)
(***************************************************************************)
\* time.Now() is later at a later request.
Tick ==
    /\ now < MaxTime
    /\ now' = now + 1
    /\ resp' = Reply("Tick", "tick", "clock", 0, 0, 0, NoData)
    /\ UNCHANGED <<people, courseware, enrollment, submission, nextId, inflight, conns>>

StrictCreateStep ==
    \E uid \in Students, aid \in AssignmentIds :
        CreateSubmissionHandler(uid, aid, 1)

StrictUpdateStep ==
    \E uid \in Students, xid \in SubmissionIds :
        UpdateSubmissionHandler(uid, xid, 2)

StrictGradeStep ==
    \E uid \in Graders, xid \in SubmissionIds :
        GradeSubmissionHandler(uid, xid, MaxPoints, 1)

NextStrict == Tick \/ StrictCreateStep \/ StrictUpdateStep \/ StrictGradeStep

SpecStrict == InitCourses /\ [][NextStrict]_vars

\* The non-deleted submissions of a pair, read off the table.
LiveSubmissions(aid, sid) ==
    {x \in DOMAIN submission :
        /\ submission[x].assignment_id = aid
        /\ submission[x].student_id = sid
        /\ submission[x].active
        /\ submission[x].status # "deleted"}

StrictCreate == resp'.op = "CreateSubmissionHandler"

\* The student profile a create or update of submission.go acts for.
CallerStudent == ActiveStudentIdOf(resp'.uid)

(***************************************************************************)
(* C11: under create, update and grade of submission.go, every             *)
(* (assignment_id, student_id) pair has at most one non-deleted            *)
(* submission, and a create for a pair that has one is an error that       *)
(* inserts no row.                                                         *)
(***************************************************************************)
C11_OneSubmissionPerPair ==
    /\ [](\A aid \in AssignmentIds, sid \in DOMAIN student :
             Cardinality(LiveSubmissions(aid, sid)) <= 1)
    /\ [][/\ StrictCreate
          /\ RoleOf(resp'.uid) = "student"
          /\ LiveSubmissions(resp'.id, CallerStudent) # {}
          => /\ IsError(resp')
             /\ submission' = submission]_vars

\* A second create of a pair was answered "already submitted".
C11_Witness ==
    /\ resp.op = "CreateSubmissionHandler"
    /\ resp.code = StatusBadRequest
    /\ LiveSubmissions(resp.id, ActiveStudentIdOf(resp.uid)) # {}

(***************************************************************************)
(* C12: create and update of submission.go write a submission only while   *)
(* now <= due_date.  After the due date a student's create for a stored    *)
(* assignment, and a student's update of an own submission, are answered   *)
(* Forbidden and leave the submission table as it was; at or before the    *)
(* due date the create of an enrolled student without a submission and     *)
(* the update of an own submission succeed.                                *)
(***************************************************************************)
StrictUpdate == resp'.op = "UpdateSubmissionHandler"

LiveAssignment(aid) == aid \in DOMAIN assignment /\ assignment[aid].active

\* The caller is a student whose request names a stored assignment.
C12_CreateCase ==
    /\ StrictCreate
    /\ RoleOf(resp'.uid) = "student" /\ CallerStudent # 0
    /\ LiveAssignment(resp'.id)

\* The caller is a student whose request names an own submission.
C12_UpdateCase ==
    /\ StrictUpdate
    /\ RoleOf(resp'.uid) = "student" /\ CallerStudent # 0
    /\ resp'.id \in DOMAIN submission
    /\ submission[resp'.id].active
    /\ submission[resp'.id].student_id = CallerStudent
    /\ LiveAssignment(submission[resp'.id].assignment_id)

C12_Refused == resp'.code = StatusForbidden /\ submission' = submission

C12_DueDateGate ==
    [][/\ C12_CreateCase =>
             LET aid == resp'.id
                 due == assignment[aid].due_date
             IN  /\ now > due => C12_Refused
                 /\ submission' # submission => now <= due
                 /\ (/\ now <= due
                     /\ ActivelyEnrolled(CallerStudent, assignment[aid].course_id)
                     /\ LiveSubmissions(aid, CallerStudent) = {})
                    => /\ ~IsError(resp')
                       /\ \E x \in DOMAIN submission' \ DOMAIN submission :
                             /\ submission'[x].assignment_id = aid
                             /\ submission'[x].student_id = CallerStudent
                             /\ submission'[x].active
       /\ C12_UpdateCase =>
             LET xid == resp'.id
                 due == assignment[submission[xid].assignment_id].due_date
             IN  /\ now > due => C12_Refused
                 /\ submission' # submission => now <= due
                 /\ now <= due => /\ ~IsError(resp')
                                  /\ submission'[xid].content = 2
                                  /\ submission'[xid].submitted_at = now]_vars

\* A submission made at the due instant itself, and its update refused
\* once the clock has passed that instant.
C12_Witness ==
    /\ resp.op = "UpdateSubmissionHandler"
    /\ resp.code = StatusForbidden
    /\ resp.id \in DOMAIN submission
    /\ submission[resp.id].student_id = ActiveStudentIdOf(resp.uid)
    /\ submission[resp.id].submitted_at =
           assignment[submission[resp.id].assignment_id].due_date
    /\ now > submission[resp.id].submitted_at

(***************************************************************************)
(* Lateness.  Student P submits through classroom.go, which takes a        *)
(* submission at any time, the teachers grade, move due dates and read.    *)
(***************************************************************************)
\* Only due_date is sent.
DueUpdate(due) ==
    [course_id |-> Absent, title |-> Absent, due_date |-> due,
     max_points |-> Absent]

DueDates == 1..MaxTime

\* The assignment of teacher A in course 1.
LateAssignments == {1}

LateSubmitStep ==
    \E uid \in Submitters, aid \in LateAssignments :
        CreateSubmissionHandler_c1(uid, aid, 1)

LateGradeStep ==
    \E uid \in Graders, xid \in SubmissionIds :
        GradeSubmissionHandler_c1(uid, xid, MaxPoints, 1)

MoveDueDateStep ==
    \E uid \in Graders, aid \in LateAssignments, due \in DueDates :
        UpdateAssignmentHandler_a1(uid, aid, DueUpdate(due))

ReadLatenessStep ==
    \/ \E uid \in Graders, xid \in SubmissionIds :
          \/ GetSubmissionHandler_c1(uid, xid)
          \/ GetSubmissionHandler_c2(uid, xid)
    \/ \E uid \in Graders, aid \in LateAssignments :
          GetAssignmentSubmissionsHandler(uid, aid)

NextLate ==
    Tick \/ LateSubmitStep \/ LateGradeStep \/ MoveDueDateStep \/ ReadLatenessStep

SpecLate == InitCourses /\ [][NextLate]_vars

\* The columns of the submission table.
SubmissionColumns ==
    {"assignment_id", "student_id", "content", "submitted_at", "score",
     "feedback", "status", "active"}

LatenessReads ==
    {"GetSubmissionHandler_c1", "GetSubmissionHandler_c2",
     "GetAssignmentSubmissionsHandler"}

(***************************************************************************)
(* C13: lateness is no column of submission; every successful read of      *)
(* classroom.go reports as late exactly the rows it returns whose          *)
(* submitted_at is after the due_date the assignment has at that read, so  *)
(* a moved due date shows in the next read; and an assignment update       *)
(* changes no submission row.                                              *)
(***************************************************************************)
C13_LatenessAtRead ==
    /\ [](\A x \in DOMAIN submission : DOMAIN submission[x] = SubmissionColumns)
    /\ [][/\ (resp'.op \in LatenessReads /\ ~IsError(resp')) =>
                /\ resp'.data.late =
                      {x \in resp'.data.rows :
                          submission[x].submitted_at >
                              assignment[submission[x].assignment_id].due_date}
                /\ submission' = submission
          /\ (resp'.verb = "update" /\ resp'.kind = "assignment") =>
                submission' = submission]_vars

\* A submission made after the seeded due date is read as not late once
\* the due date was moved to the time of submission or later.
C13_Witness ==
    /\ resp.op = "GetSubmissionHandler_c1"
    /\ resp.code = StatusOK
    /\ submission[resp.id].submitted_at > 1
    /\ resp.data.late = {}

(***************************************************************************)
(* Login.  A token is the claims login signs: user_id, role and exp, and   *)
(* whether its signature was made with the server's secret.                *)
(***************************************************************************)
\* An address no user registered with.
UnknownEmail == NumEmails + 7

LoginRequests ==
    [email : {EmptyEmail, 1, 2, UnknownEmail},
     password : {<<>>, SeedPassword, <<"U", "l", "d">>}]

\* jwt.NewWithClaims(jwt.SigningMethodHS256, claims) and SignedString
SignedToken(uid) ==
    [user_id |-> uid, role |-> user[uid].role, exp |-> now + TokenLife,
     signed |-> TRUE]

\* SELECT ... FROM user WHERE email = ? AND archive_delete_flag = TRUE
ActiveUserByEmail(email) ==
    LET us == {u \in DOMAIN user : user[u].email = email /\ user[u].active}
    IN  IF us = {} THEN 0 ELSE CHOOSE u \in us : TRUE

\* SELECT ... FROM user WHERE email = ?
UserByEmail(email) ==
    LET us == {u \in DOMAIN user : user[u].email = email}
    IN  IF us = {} THEN 0 ELSE CHOOSE u \in us : TRUE

LoginReply(op, req, code, body) ==
    /\ resp' = Reply(op, "login", "user", 0, req.email, code,
                     [request |-> req, body |-> body])
    /\ UNCHANGED <<people, courseware, enrollment, submission, nextId, now, inflight, conns>>

InvalidLogin == [error |-> "Invalid email or password"]

\* auth.LoginHandler; models.LoginRequest binds email and password as
\* required.
LoginHandler(req) ==
    LET op == "LoginHandler"
        uid == ActiveUserByEmail(req.email)
    IN  IF req.email = EmptyEmail \/ req.password = <<>>
        THEN LoginReply(op, req, StatusBadRequest, [error |-> "Invalid request body"])
        ELSE IF uid = 0
        THEN LoginReply(op, req, StatusUnauthorized, InvalidLogin)
        ELSE IF ~CompareHashAndPassword(user[uid].password, req.password)
        THEN LoginReply(op, req, StatusUnauthorized, InvalidLogin)
        ELSE LoginReply(op, req, StatusOK, [token |-> SignedToken(uid), user |-> uid])

\* loginHandler of config.go
loginHandler(req) ==
    LET op == "loginHandler"
        uid == UserByEmail(req.email)
    IN  IF req.email = EmptyEmail \/ req.password = <<>>
        THEN LoginReply(op, req, StatusBadRequest,
                        [error |-> "Email and password are required"])
        ELSE IF uid = 0
        THEN LoginReply(op, req, StatusUnauthorized, InvalidLogin)
        ELSE IF ~CompareHashAndPassword(user[uid].password, req.password)
        THEN LoginReply(op, req, StatusUnauthorized, InvalidLogin)
        ELSE LoginReply(op, req, StatusOK, [token |-> SignedToken(uid), user |-> uid])

LoginStep == \E req \in LoginRequests : LoginHandler(req) \/ loginHandler(req)

(***************************************************************************)
(* The authentication middleware.  A request carries no Authorization      *)
(* header, one that is no JWT, or a JWT; the caller holds the token of     *)
(* the login reply it received last.                                       *)
(***************************************************************************)
NoToken == [user_id |-> 0, role |-> "", exp |-> 0, signed |-> FALSE]

HasToken(r) == r.verb = "login" /\ r.code = StatusOK

HeldToken == IF HasToken(resp) THEN resp.data.body.token ELSE NoToken

\* "none": no header; "garbage": not a JWT; "issued": the held token;
\* "tampered": the held token with teacher written into its claims.
HeaderKinds == {"none", "garbage", "issued", "tampered"}

Presented(kind) ==
    IF kind = "issued" /\ HasToken(resp)
    THEN [form |-> "jwt", token |-> HeldToken]
    ELSE IF kind = "tampered" /\ HasToken(resp)
    THEN [form |-> "jwt",
          token |-> [HeldToken EXCEPT !.role = "teacher", !.signed = FALSE]]
    ELSE IF kind = "none" THEN [form |-> "none", token |-> NoToken]
    ELSE [form |-> "garbage", token |-> NoToken]

RecognizedRoles == {"teacher", "student"}

\* A verdict that never looks at exp.
AuthVerdictNoExpiry(h) ==
    IF h.form = "none" THEN "Authorization header required"
    ELSE IF h.form # "jwt" \/ ~h.token.signed THEN "Invalid token"
    ELSE IF h.token.role \notin RecognizedRoles THEN "Invalid role"
    ELSE ""

\* auth.AuthMiddleware: the error it aborts with, "" when it calls c.Next().
\* jwt-go takes a token as expired once now > exp.
AuthVerdict(h) ==
    IF h.form = "none" THEN "Authorization header required"
    ELSE IF h.form # "jwt" \/ ~h.token.signed \/ now > h.token.exp
    THEN "Invalid token"
    ELSE IF h.token.role \notin RecognizedRoles THEN "Invalid role"
    ELSE ""

\* authMiddleware of config.go; jwt/v4 takes a token as expired once
\* now >= exp.
authVerdict(h) ==
    IF h.form = "none" THEN "Authorization token required"
    ELSE IF h.form # "jwt" \/ ~h.token.signed \/ now >= h.token.exp
    THEN "Invalid or expired token"
    ELSE ""

\* c.JSON(http.StatusUnauthorized, ...); c.Abort()
Abort(op, h, error) ==
    /\ resp' = Reply(op, "abort", "token", 0, 0, StatusUnauthorized,
                     [error |-> error, header |-> h])
    /\ UNCHANGED <<people, courseware, enrollment, submission, nextId, now, inflight, conns>>

\* The user_id the middleware puts in the context with c.Set.
ContextUser(kind) == Presented(kind).token.user_id

\* auth.AuthMiddleware: c.Next() is reached.
AuthPasses(kind) == AuthVerdict(Presented(kind)) = ""

\* auth.AuthMiddleware on the requests it aborts.
AuthMiddleware(kind) ==
    /\ ~AuthPasses(kind)
    /\ Abort("AuthMiddleware", Presented(kind), AuthVerdict(Presented(kind)))

authPasses(kind) == authVerdict(Presented(kind)) = ""

authMiddleware(kind) ==
    /\ ~authPasses(kind)
    /\ Abort("authMiddleware", Presented(kind), authVerdict(Presented(kind)))

\* checkAuthHandler of config.go: the user_id and role of the context.
checkAuthHandler(uid) ==
    /\ resp' = Reply("checkAuthHandler", "get", "user", uid, uid, StatusOK,
                     [authenticated |-> TRUE])
    /\ UNCHANGED <<people, courseware, enrollment, submission, nextId, now, inflight, conns>>

\* Time passes between a reply and the caller's next request.
Wait ==
    /\ now < MaxTime
    /\ now' = now + 1
    /\ UNCHANGED <<people, courseware, enrollment, submission, nextId,
                   inflight, conns, resp>>

CallCreateClassroom ==
    \E kind \in HeaderKinds, title \in NewTitles :
        \/ AuthMiddleware(kind)
        \/ AuthPasses(kind) /\ CreateClassroomHandler(ContextUser(kind), title)

CallEnroll ==
    \E kind \in HeaderKinds, course \in CourseIds :
        \/ AuthMiddleware(kind)
        \/ AuthPasses(kind) /\ EnrollStudentHandler(ContextUser(kind), course)

CallCheckAuth ==
    \E kind \in HeaderKinds :
        \/ authMiddleware(kind)
        \/ authPasses(kind) /\ checkAuthHandler(ContextUser(kind))

\* Registrations with a strong password and their profile data, for a role
\* of the ENUM and for one the handler lets through besides.
SignupRequests ==
    [email : Emails, password : {SeedPassword},
     role : {"teacher", "student", "admin"}, profile : {TRUE}]

SignupStep ==
    \E req \in SignupRequests, fail \in {"none", "strict"} :
        RegisterHandler_root(req, fail)

\* Registration and login from the empty store.
NextLogin == SignupStep \/ LoginStep

SpecLogin == InitEmpty /\ [][NextLogin]_vars

\* The seeded users log in, wait and call protected endpoints.
NextAuth ==
    LoginStep \/ Wait \/ CallCreateClassroom \/ CallEnroll \/ CallCheckAuth

SpecAuth == InitPeople /\ [][NextAuth]_vars

\* Users register, log in and call a protected endpoint.
NextRoles == SignupStep \/ LoginStep \/ CallCreateClassroom

SpecRoles == InitEmpty /\ [][NextRoles]_vars

\* The request of a login reply binds, and its email has no active user or
\* its password is not the one of that user.
C14_FailedLogin ==
    LET req == resp'.data.request
    IN  /\ resp'.verb = "login"
        /\ req.email # EmptyEmail /\ req.password # <<>>
        /\ \A u \in DOMAIN user :
              (user[u].email = req.email /\ user[u].active) =>
                  user[u].password # <<"bcrypt", req.password>>

PublicReply(r) == r.kind = "user" /\ r.verb \in {"create", "login"}

\* A request was answered, by the middleware or by the handler behind it.
C15_ProtectedStep == now' = now /\ ~PublicReply(resp')

StoreKept ==
    UNCHANGED <<people, courseware, enrollment, submission, nextId>>

\* The held token as each middleware takes it: signed with the server's
\* secret, not expired, and for AuthMiddleware of a recognized role.
C15_GinTokenHeld ==
    /\ HasToken(resp)
    /\ HeldToken.signed /\ now <= HeldToken.exp
    /\ HeldToken.role \in RecognizedRoles

C15_MainTokenHeld == HasToken(resp) /\ HeldToken.signed /\ now < HeldToken.exp

(***************************************************************************)
(* C15: behind the middleware a handler runs only for a caller who holds   *)
(* a token that is signed and not expired, and then for the user of that   *)
(* token; every other request to a protected endpoint, and every request   *)
(* with no header, with a header that is no JWT or with altered claims,    *)
(* is answered 401 by the middleware and leaves the store as it was.       *)
(***************************************************************************)
C15_TokenRequired ==
    [][C15_ProtectedStep =>
          IF resp'.verb = "abort"
          THEN /\ resp'.code = StatusUnauthorized
               /\ StoreKept
          ELSE /\ resp'.data # NoData => "header" \notin DOMAIN resp'.data
               /\ resp'.uid = HeldToken.user_id
               /\ IF resp'.op = "checkAuthHandler"
                  THEN C15_MainTokenHeld
                  ELSE C15_GinTokenHeld]_vars

\* An expired token was presented to create a classroom and refused.
C15_Witness ==
    /\ resp.op = "AuthMiddleware" /\ resp.code = StatusUnauthorized
    /\ resp.data.header.form = "jwt"
    /\ resp.data.header.token.signed
    /\ now > resp.data.header.token.exp

\* The middleware refused a token that is signed and not expired.
C16_RoleRefused ==
    /\ resp'.op = "AuthMiddleware"
    /\ resp'.data.header.form = "jwt"
    /\ resp'.data.header.token.signed
    /\ now <= resp'.data.header.token.exp

\* The token of the login reply just received was presented as it is.
C16_IssuedPresented ==
    /\ HasToken(resp)
    /\ resp'.op \notin {"LoginHandler", "loginHandler", "RegisterHandler_root"}
    /\ resp'.verb = "abort" =>
          resp'.data.header = [form |-> "jwt", token |-> HeldToken]

(***************************************************************************)
(* C16: AuthMiddleware refuses a signed, unexpired token exactly for a     *)
(* role outside teacher and student, with the error "Invalid role" and     *)
(* without running a handler; and the token a registered user gets from    *)
(* login is not refused, so the handler behind the middleware runs.        *)
(***************************************************************************)
C16_RolesAgree ==
    [][/\ C16_RoleRefused =>
             /\ resp'.data.header.token.role \notin RecognizedRoles
             /\ resp'.data.error = "Invalid role"
             /\ resp'.code = StatusUnauthorized
             /\ StoreKept
       /\ C16_IssuedPresented => resp'.verb # "abort"]_vars

(***************************************************************************)
(* Enrollment alone: students P and Q enroll and unenroll in the seeded    *)
(* classrooms.                                                             *)
(***************************************************************************)
NextEnroll == EnrollStep \/ UnenrollStep

SpecEnroll == InitSchool /\ [][NextEnroll]_vars

\* The active enrollment rows of a pair, read off the table.
ActiveEnrollments(sid, course) ==
    {e \in DOMAIN enrollment :
        /\ enrollment[e].student_id = sid
        /\ enrollment[e].course_id = course
        /\ enrollment[e].active}

\* A student's enroll request for a course the student is enrolled in.
C17_RepeatedEnroll ==
    /\ resp'.verb = "enroll"
    /\ RoleOf(resp'.uid) = "student"
    /\ ActiveEnrollments(ActiveStudentIdOf(resp'.uid), resp'.id) # {}

C17_OnePerPair ==
    \A sid \in DOMAIN student, course \in CourseIds :
        Cardinality(ActiveEnrollments(sid, course)) <= 1

C18_EnrollAgain ==
    LET sid == ActiveStudentIdOf(resp'.uid)
    IN  /\ resp'.verb = "enroll"
        /\ RoleOf(resp'.uid) = "student"
        /\ resp'.id \in DOMAIN classroom /\ classroom[resp'.id].active
        /\ ActiveEnrollments(sid, resp'.id) = {}
        /\ \E e \in DOMAIN enrollment :
              /\ enrollment[e].student_id = sid
              /\ enrollment[e].course_id = resp'.id
              /\ ~enrollment[e].active
        /\ resp'.code # StatusBadRequest

(***************************************************************************)
(* C18: after an enroll and an unenroll, an enroll request of the same     *)
(* student for the same course with the right teacher name succeeds and    *)
(* leaves exactly one active enrollment of the pair.                       *)
(***************************************************************************)
C18_ReenrollSucceeds ==
    [][C18_EnrollAgain =>
          /\ ~IsError(resp')
          /\ Cardinality({e \in DOMAIN enrollment' :
                            /\ enrollment'[e].student_id = ActiveStudentIdOf(resp'.uid)
                            /\ enrollment'[e].course_id = resp'.id
                            /\ enrollment'[e].active}) = 1]_vars

(***************************************************************************)
(* Updates alone: both teachers update the assignment and the material of  *)
(* course 1 with payloads that carry some fields and leave others out.     *)
(***************************************************************************)
\* Only the title is sent.
TitleUpdate(title) ==
    [course_id |-> Absent, title |-> title, due_date |-> Absent,
     max_points |-> Absent]

MergeUpdates ==
    {EmptyAssignmentRequest, TitleUpdate(NumTitles), DueUpdate(MaxTime),
     PointsUpdate(1), FullAssignmentRequest(1, NumTitles)}

MergeAssignmentStep ==
    \E uid \in Graders, aid \in LateAssignments, req \in MergeUpdates :
        \/ UpdateAssignmentHandler_a1(uid, aid, req)
        \/ UpdateAssignmentHandler_a2(uid, aid, req)
        \/ UpdateAssignmentHandler_p4(uid, aid, req)

MergeMaterialStep ==
    \E uid \in Graders, mid \in MaterialIds, title \in AnyTitles :
        UpdateMaterial(uid, mid, title)

NextMerge == MergeAssignmentStep \/ MergeMaterialStep

SpecMerge == InitSchool /\ [][NextMerge]_vars

\* The value of a field after an update that merges: the payload's value
\* where the payload carries one, the stored value otherwise.
Merged(old, sent) == IF sent = Absent THEN old ELSE sent

\* An update of a stored assignment was carried out.
C19_AssignmentUpdated ==
    /\ resp'.verb = "update" /\ resp'.kind = "assignment"
    /\ ~IsError(resp')
    /\ resp'.id \in DOMAIN assignment

\* An update of a stored material was carried out.
C19_MaterialUpdated ==
    /\ resp'.verb = "update" /\ resp'.kind = "material"
    /\ ~IsError(resp')
    /\ resp'.id \in DOMAIN material

(***************************************************************************)
(* C19: an update of an assignment or a material keeps every field that    *)
(* the payload leaves out or sends empty and overwrites only the fields    *)
(* the payload carries: title, due_date and max_points of an assignment,   *)
(* the title of a material.                                                *)
(***************************************************************************)
C19_PartialMerge ==
    [][/\ C19_AssignmentUpdated =>
             LET old == assignment[resp'.id]
                 new == assignment'[resp'.id]
                 req == resp'.data
             IN  /\ new.title = Merged(old.title, req.title)
                 /\ new.due_date = Merged(old.due_date, req.due_date)
                 /\ new.max_points = Merged(old.max_points, req.max_points)
       /\ C19_MaterialUpdated =>
             material'[resp'.id].title =
                 Merged(material[resp'.id].title, resp'.data.title)]_vars

(***************************************************************************)
(* Statistics of an assignment.  AVG and the rates are fractions: num/den  *)
(* is the number the handler sends as a float64.                           *)
(***************************************************************************)
ScoreOf(xid) == CHOOSE n \in submission[xid].score : TRUE

RECURSIVE SumOfScores(_)
SumOfScores(ids) ==
    IF ids = {} THEN 0
    ELSE LET x == CHOOSE x \in ids : TRUE
         IN  ScoreOf(x) + SumOfScores(ids \ {x})

\* AVG(score) over the rows ids: NULL over no row with a score.
AvgScore(ids) ==
    LET scored == {x \in ids : submission[x].score # Null}
    IN  IF scored = {} THEN Null
        ELSE {Fraction(SumOfScores(scored), Cardinality(scored))}

\* avgGrade := 0.0, replaced when the average is Valid; COALESCE(AVG, 0).
OrZero(avg) == IF avg = Null THEN ZeroFraction ELSE CHOOSE f \in avg : TRUE

\* The count without its archive_delete_flag condition.
EnrolledIn(course) ==
    {e \in DOMAIN enrollment : enrollment[e].course_id = course}

\* enrollment WHERE course_id = ? AND archive_delete_flag = TRUE
ActivelyEnrolledIn(course) ==
    {e \in DOMAIN enrollment :
        enrollment[e].course_id = course /\ enrollment[e].active}

GetAssignmentStatisticsHandler(uid, aid) ==
    /\ LET op == "GetAssignmentStatisticsHandler"
           says(code, data) ==
               resp' = Reply(op, "statistics", "assignment", uid, aid, code, data)
           course == assignment[aid].course_id
           totalStudents == Cardinality(ActivelyEnrolledIn(course))
           counted == {x \in DOMAIN submission :
                         /\ submission[x].assignment_id = aid
                         /\ submission[x].active}
           graded == {x \in counted : submission[x].status = "graded"}
       IN  IF RoleOf(uid) # "teacher" THEN says(StatusForbidden, NoData)
           ELSE IF ~(aid \in DOMAIN assignment /\ assignment[aid].active)
           THEN says(StatusNotFound, NoData)
           ELSE IF ~OwnsActiveAssignment(ActiveTeacherIdOf(uid), aid)
           THEN says(StatusForbidden, NoData)
           ELSE says(StatusOK,
                     [assignment_id |-> aid,
                      average_grade |-> OrZero(AvgScore(graded)),
                      submission_rate |->
                          calculatePercentage(Cardinality(counted), totalStudents),
                      total_students |-> totalStudents,
                      submission_count |-> Cardinality(counted)])
    /\ ReadFrame

GetAssignmentDetailsHandler(uid, aid) ==
    /\ LET op == "GetAssignmentDetailsHandler"
           says(code, data) ==
               resp' = Reply(op, "statistics", "assignment", uid, aid, code, data)
           joined == {x \in DOMAIN submission :
                        /\ submission[x].assignment_id = aid
                        /\ submission[x].status # "deleted"}
           withScore == {x \in joined : submission[x].score # Null}
           late == {x \in joined :
                      submission[x].submitted_at > assignment[aid].due_date}
           classSize == getClassSize(assignment[aid].course_id)
       IN  IF ~OwnsAssignmentByUser(uid, aid) THEN says(StatusNotFound, NoData)
           ELSE says(StatusOK,
                     [assignment |-> aid,
                      class_size |-> classSize,
                      total_submissions |-> Cardinality(joined),
                      graded_submissions |-> Cardinality(withScore),
                      late_submissions |-> Cardinality(late),
                      average_grade |-> OrZero(AvgScore(joined)),
                      completion_percent |->
                          calculatePercentage(Cardinality(joined), classSize),
                      graded_percent |->
                          calculatePercentage(Cardinality(withScore),
                                              Cardinality(joined))])
    /\ ReadFrame

(***************************************************************************)
(* The course of one assignment: the classrooms and assignments of         *)
(* teachers A and B are stored, students enroll and submit, the teachers   *)
(* grade and read the statistics, and time passes.                         *)
(***************************************************************************)
InitStatistics ==
    /\ user = SeedUsers /\ teacher = SeedTeachers /\ student = SeedStudents
    /\ classroom = SeedClassrooms /\ assignment = SeedAssignments
    /\ enrollment = NoRows
    /\ submission = NoRows /\ material = NoRows /\ announcement = NoRows
    /\ nextId = [FirstIds EXCEPT !.user = 5, !.teacher = 3, !.student = 3,
                                 !.classroom = 3, !.assignment = 3]
    /\ now = 0
    /\ inflight = {}
    /\ conns = AllConnected
    /\ resp = NoReply

\* A score below max_points and max_points itself.
StatisticsScores == {MaxPoints - 1, MaxPoints}

\* The course of the assignment that is read.
StatisticsCourses == {1}

StatisticsEnrollStep ==
    \E uid \in Students, course \in StatisticsCourses :
        EnrollStudentHandler(uid, course)

StatisticsSubmitStep ==
    \E uid \in Students, aid \in LateAssignments :
        CreateSubmissionHandler(uid, aid, 1)

StatisticsGradeStep ==
    \E uid \in Graders, xid \in SubmissionIds, score \in StatisticsScores :
        GradeSubmissionHandler(uid, xid, score, 1)

StatisticsReadStep ==
    \E uid \in Graders, aid \in LateAssignments :
        \/ GetAssignmentStatisticsHandler(uid, aid)
        \/ GetAssignmentDetailsHandler(uid, aid)

NextStatistics ==
    \/ Tick \/ StatisticsEnrollStep \/ StatisticsSubmitStep
    \/ StatisticsGradeStep \/ StatisticsReadStep

SpecStatistics == InitStatistics /\ [][NextStatistics]_vars

\* The submissions stored for an assignment.
SubmissionsFor(aid) == {x \in DOMAIN submission : submission[x].assignment_id = aid}

\* Assignment aid has one submission, and it is graded with score.
OneGraded(aid, score) ==
    /\ Cardinality(SubmissionsFor(aid)) = 1
    /\ \A x \in SubmissionsFor(aid) :
          /\ submission[x].active
          /\ submission[x].status = "graded"
          /\ submission[x].score = {score}

\* The fraction is the whole number n.
IsNumber(f, n) == f.den > 0 /\ f.num = n * f.den

\* GradeSubmissionHandler carried out a grade request.
C20_Graded ==
    /\ resp'.op = "GradeSubmissionHandler"
    /\ ~IsError(resp')

\* The statistics route answered.
C20_StatisticsRead ==
    /\ resp.op = "GetAssignmentStatisticsHandler"
    /\ ~IsError(resp)

\* The details route answered.
C20_DetailsRead ==
    /\ resp.op = "GetAssignmentDetailsHandler"
    /\ ~IsError(resp)

C20_DetailsReport ==
    \A score \in StatisticsScores :
        (C20_DetailsRead /\ OneGraded(resp.id, score)) =>
            /\ resp.data.total_submissions = 1
            /\ resp.data.graded_submissions = 1
            /\ IsNumber(resp.data.average_grade, score)

NextClassSize == StatisticsEnrollStep \/ UnenrollStep \/ StatisticsReadStep

SpecClassSize == InitStatistics /\ [][NextClassSize]_vars

\* The course of the assignment a statistics reply is about.
C21_Course == assignment[resp.id].course_id

(***************************************************************************)
(* C21: the class size an aggregate of an assignment reports              *)
(* (total_students of the statistics, class_size of the details) is the    *)
(* number of active enrollments of the assignment's course.                *)
(***************************************************************************)
C21_ClassSizeIsActiveEnrollments ==
    (resp.verb = "statistics" /\ ~IsError(resp)) =>
        /\ resp.op = "GetAssignmentStatisticsHandler" =>
              resp.data.total_students = Cardinality(ActivelyEnrolledIn(C21_Course))
        /\ resp.op = "GetAssignmentDetailsHandler" =>
              resp.data.class_size = Cardinality(ActivelyEnrolledIn(C21_Course))

(***************************************************************************)
(* Aggregates: students enroll in course 1, unenroll and submit, the       *)
(* teachers grade and read the statistics and the details.                 *)
(***************************************************************************)
NextAggregate ==
    \/ StatisticsEnrollStep \/ UnenrollStep \/ StatisticsSubmitStep
    \/ StatisticsGradeStep \/ StatisticsReadStep

SpecAggregate == InitStatistics /\ [][NextAggregate]_vars

\* The rows of a table whose archive_delete_flag is set.
ActiveRowsOf(table) == {k \in DOMAIN table : table[k].active}

C22_Enrollments ==
    {e \in ActiveRowsOf(enrollment) : enrollment[e].course_id = C21_Course}

C22_Submissions ==
    {x \in ActiveRowsOf(submission) : submission[x].assignment_id = resp.id}

C22_AggregateRead == resp.verb = "statistics" /\ ~IsError(resp)

Connections == 1..MaxRequests

Pending(conn) == {r \in inflight : r.conn = conn}

InFlight(conn, op, uid, sid, id, content) ==
    [conn |-> conn, op |-> op, uid |-> uid, sid |-> sid, id |-> id,
     content |-> content]

\* The request passed its checks: no reply is written yet.
Proceeds(op, kind, uid, id) ==
    resp' = Reply(op, "check", kind, uid, id, 0, NoData)

\* Every check of CreateSubmissionHandler passes.
CreateSubmissionPasses(uid, aid) ==
    /\ RoleOf(uid) = "student"
    /\ ActiveStudentIdOf(uid) # 0
    /\ aid \in DOMAIN assignment /\ assignment[aid].active
    /\ ~After(now, assignment[aid].due_date)
    /\ ActivelyEnrolled(ActiveStudentIdOf(uid), assignment[aid].course_id)
    /\ ActiveSubmissionsOf(aid, ActiveStudentIdOf(uid)) = {}

\* CreateSubmissionHandler up to its INSERT: a check that fails replies as
\* the handler does.
CreateSubmissionChecks(conn, uid, aid, content) ==
    /\ Pending(conn) = {}
    /\ IF CreateSubmissionPasses(uid, aid)
       THEN /\ inflight' = inflight \cup
                   {InFlight(conn, "CreateSubmissionHandler", uid,
                             ActiveStudentIdOf(uid), aid, content)}
            /\ Proceeds("CreateSubmissionChecks", "submission", uid, aid)
            /\ UNCHANGED <<people, courseware, enrollment, submission, nextId, now, conns>>
       ELSE CreateSubmissionHandler(uid, aid, content)

\* An INSERT that refuses a second row of the pair, as a unique key would.
CreateSubmissionInsertsOnce(conn) ==
    /\ nextId.submission <= MaxSubmissions
    /\ \E r \in Pending(conn) :
          /\ r.op = "CreateSubmissionHandler"
          /\ inflight' = inflight \ {r}
          /\ IF ActiveSubmissionsOf(r.id, r.sid) # {}
             THEN /\ SubmissionReply(r.op, "create", r.uid, r.id,
                                     StatusInternalServerError, NoData)
                  /\ UNCHANGED <<submission, nextId>>
             ELSE InsertSubmission(r.op, r.uid, r.id, r.sid, r.content, StatusOK)
    /\ UNCHANGED <<people, courseware, enrollment, now, conns>>

\* The INSERT of CreateSubmissionHandler and its reply.  The submission
\* table has no unique key on (assignment_id, student_id); the foreign key
\* refuses a row of an assignment that was removed meanwhile.
CreateSubmissionInserts(conn) ==
    /\ nextId.submission <= MaxSubmissions
    /\ \E r \in Pending(conn) :
          /\ r.op = "CreateSubmissionHandler"
          /\ inflight' = inflight \ {r}
          /\ IF r.id \notin DOMAIN assignment
             THEN /\ SubmissionReply(r.op, "create", r.uid, r.id,
                                     StatusInternalServerError, NoData)
                  /\ UNCHANGED <<submission, nextId>>
             ELSE InsertSubmission(r.op, r.uid, r.id, r.sid, r.content, StatusOK)
    /\ UNCHANGED <<people, courseware, enrollment, now, conns>>

(***************************************************************************)
(* Students P and Q send create requests for assignment 1 over two         *)
(* connections while time passes.                                          *)
(***************************************************************************)
RaceCheckStep ==
    \E conn \in Connections, uid \in Students, aid \in LateAssignments :
        CreateSubmissionChecks(conn, uid, aid, 1)

RaceInsertStep == \E conn \in Connections : CreateSubmissionInserts(conn)

NextRace == RaceCheckStep \/ RaceInsertStep \/ Tick

SpecRace == InitCourses /\ [][NextRace]_vars

\* The INSERT of a create request ran.
C23_Inserted ==
    /\ resp'.op = "CreateSubmissionHandler"
    /\ inflight' # inflight

(***************************************************************************)
(* C23: the strict create handler does not serialize.  A create request    *)
(* that passed the existing-submission check inserts its row and answers   *)
(* 200 whatever was inserted since the check, so two requests of one       *)
(* (assignment, student) pair that both passed the check leave two active  *)
(* submissions of the pair.                                                *)
(***************************************************************************)
C23_CheckThenInsertRaces ==
    [][C23_Inserted =>
          /\ ~IsError(resp')
          /\ \E x \in DOMAIN submission' \ DOMAIN submission :
                /\ submission'[x].active
                /\ submission'[x].assignment_id = resp'.id
                /\ submission'[x].student_id = ActiveStudentIdOf(resp'.uid)]_vars

\* Both requests of a pair were answered with success and two active
\* submissions of the pair are stored.
C23_Witness ==
    /\ inflight = {}
    /\ resp.op = "CreateSubmissionHandler" /\ ~IsError(resp)
    /\ Cardinality(ActiveSubmissionsOf(resp.id, ActiveStudentIdOf(resp.uid))) = 2

(***************************************************************************)
(* Concurrent enroll requests                                              *)
(***************************************************************************)
\* Every check of the stricter enroll handler passes.
EnrollPasses_p5(uid, course, teacherName) ==
    /\ RoleOf(uid) = "student"
    /\ course > 0 /\ teacherName # EmptyName
    /\ ActiveStudentIdOf(uid) # 0
    /\ course \in DOMAIN classroom /\ classroom[course].active
    /\ EqualFold(TrimSpace(teacherName), TrimSpace(TeacherNameOf(course)))
    /\ ~ActivelyEnrolled(ActiveStudentIdOf(uid), course)

\* Every check of the enroll handler of enrollment.go passes.
EnrollPasses(uid, course) ==
    /\ RoleOf(uid) = "student"
    /\ ActiveStudentIdOf(uid) # 0
    /\ ~ActivelyEnrolled(ActiveStudentIdOf(uid), course)

\* The stricter enroll handler up to its INSERT.
EnrollChecks_p5(conn, uid, course, teacherName) ==
    /\ Pending(conn) = {}
    /\ IF EnrollPasses_p5(uid, course, teacherName)
       THEN /\ inflight' = inflight \cup
                   {InFlight(conn, "EnrollStudentHandler_p5", uid,
                             ActiveStudentIdOf(uid), course, teacherName)}
            /\ Proceeds("EnrollChecks_p5", "classroom", uid, course)
            /\ UNCHANGED <<people, courseware, enrollment, submission, nextId, now, conns>>
       ELSE EnrollStudentHandler_p5(uid, course, teacherName)

\* The enroll handler of enrollment.go up to its INSERT.
EnrollChecks(conn, uid, course) ==
    /\ Pending(conn) = {}
    /\ IF EnrollPasses(uid, course)
       THEN /\ inflight' = inflight \cup
                   {InFlight(conn, "EnrollStudentHandler", uid,
                             ActiveStudentIdOf(uid), course, EmptyName)}
            /\ Proceeds("EnrollChecks", "classroom", uid, course)
            /\ UNCHANGED <<people, courseware, enrollment, submission, nextId, now, conns>>
       ELSE EnrollStudentHandler(uid, course)

\* The INSERT of an enroll handler and its reply.
EnrollInserts(conn) ==
    /\ \E r \in Pending(conn) :
          /\ r.op \in {"EnrollStudentHandler_p5", "EnrollStudentHandler"}
          /\ inflight' = inflight \ {r}
          /\ InsertEnrollment(r.op, r.uid, r.sid, r.id)
    /\ UNCHANGED <<people, courseware, submission, now, conns>>

(***************************************************************************)
(* Student P sends enroll requests for classroom 1 over the connections,   *)
(* and the students unenroll.                                              *)
(***************************************************************************)
RacingStudents == {2}

EnrollCheckStep ==
    \E conn \in Connections, uid \in RacingStudents, course \in StatisticsCourses :
        \/ EnrollChecks_p5(conn, uid, course, TeacherNameOf(course))
        \/ EnrollChecks(conn, uid, course)

EnrollInsertStep == \E conn \in Connections : EnrollInserts(conn)

NextEnrollRace == EnrollCheckStep \/ EnrollInsertStep \/ UnenrollStep

SpecEnrollRace == InitStatistics /\ [][NextEnrollRace]_vars

\* The enrollment rows of a pair, whatever their flag.
EnrollmentRowsOf(table, sid, course) ==
    {e \in DOMAIN table :
        table[e].student_id = sid /\ table[e].course_id = course}

C24_OneRowPerPair ==
    \A sid \in DOMAIN student, course \in CourseIds :
        Cardinality(EnrollmentRowsOf(enrollment, sid, course)) <= 1

(***************************************************************************)
(* C24: whatever the interleaving of enroll requests, a (student_id,       *)
(* course_id) pair has at most one enrollment row; an enroll request that  *)
(* answers with success added the one row of its pair, and one that        *)
(* answers with an error inserted nothing.                                 *)
(***************************************************************************)
C24_OneEnrollmentPerPair ==
    /\ []C24_OneRowPerPair
    /\ [][resp'.verb = "enroll" =>
             LET sid == ActiveStudentIdOf(resp'.uid)
             IN  /\ IsError(resp') => enrollment' = enrollment
                 /\ ~IsError(resp') =>
                       /\ EnrollmentRowsOf(enrollment, sid, resp'.id) = {}
                       /\ Cardinality(EnrollmentRowsOf(enrollment', sid,
                                                       resp'.id)) = 1]_vars

\* A request that passed its checks was refused at its INSERT: the other
\* request of the pair had inserted the row meanwhile.
C24_Witness ==
    /\ resp.verb = "enroll"
    /\ resp.code = StatusInternalServerError
    /\ ActiveEnrollments(ActiveStudentIdOf(resp.uid), resp.id) # {}

(***************************************************************************)
(* C25: the status of a submission only moves forward.  A graded           *)
(* submission never returns to submitted, and a submission with status     *)
(* deleted is never changed again.                                         *)
(***************************************************************************)
C25_StatusOnlyForward ==
    [][\A x \in DOMAIN submission \cap DOMAIN submission' :
          /\ submission[x].status = "graded" =>
                submission'[x].status # "submitted"
          /\ submission[x].status = "deleted" =>
                submission'[x] = submission[x]]_vars

(***************************************************************************)
(* Submissions of a soft-deleted assignment                                *)
(***************************************************************************)
\* SELECT ... FROM submission WHERE student_id = ? AND
\* archive_delete_flag = TRUE; score and feedback scan as nullable.
GetStudentSubmissionsHandler(uid) ==
    /\ LET op == "GetStudentSubmissionsHandler"
           sid == ActiveStudentIdOf(uid)
           says(code, data) == Listing(op, "submission", uid, 0, code, data)
       IN  IF RoleOf(uid) # "student" THEN says(StatusForbidden, NoData)
           ELSE IF sid = 0 THEN says(StatusNotFound, NoData)
           ELSE says(StatusOK,
                     Rows({x \in DOMAIN submission :
                              /\ submission[x].student_id = sid
                              /\ submission[x].active}))
    /\ ReadFrame

\* The teachers soft-delete the seeded assignments.
OrphanDeleteStep ==
    \E uid \in Graders, aid \in AssignmentIds :
        DeleteAssignmentHandler_a2(uid, aid)

\* Students and teachers read submissions one by one and in lists.
OrphanReadStep ==
    \E uid \in Readers, xid \in SubmissionIds, aid \in AssignmentIds :
        \/ GetSubmissionHandler(uid, xid)
        \/ GetStudentSubmissionsHandler(uid)
        \/ GetAssignmentSubmissionsHandler(uid, aid)

\* The teachers grade the seeded submissions.
OrphanGradeStep ==
    \E uid \in Graders, xid \in SubmissionIds :
        GradeSubmissionHandler(uid, xid, MaxPoints, 1)

NextOrphan == OrphanDeleteStep \/ OrphanGradeStep \/ OrphanReadStep

SpecOrphan == InitSchool /\ [][NextOrphan]_vars

\* The assignment of a submission is soft-deleted.
OfDeletedAssignment(x) ==
    /\ submission[x].assignment_id \in DOMAIN assignment
    /\ ~assignment[submission[x].assignment_id].active

(***************************************************************************)
(* C26: the soft delete of an assignment leaves its submissions flagged    *)
(* active, and afterwards every get or list of submissions answers with an *)
(* error or leaves the submissions of that assignment out.                 *)
(***************************************************************************)
C26_OrphansUnreachable ==
    [][/\ (resp'.verb = "delete" /\ resp'.kind = "assignment") =>
             submission' = submission
       /\ (/\ resp'.verb \in {"get", "list"}
           /\ resp'.kind = "submission"
           /\ ~IsError(resp')) =>
             \A x \in resp'.data.rows : ~OfDeletedAssignment(x)]_vars

(***************************************************************************)
(* The stricter enroll handler and the spelling of the teacher's name      *)
(***************************************************************************)
\* The seeded classrooms and one that is not stored.
SpelledCourses == 1..(MaxCourses + 1)

\* No name, a blank, teacher A's name in lower case, teacher B's between
\* blanks, and the name of student P: none is spelled as it is stored.
SpelledNames ==
    {EmptyName, <<Space>>, ToLower(NameOf(1)),
     <<Space>> \o NameOf(4) \o <<Space>>, NameOf(2)}

SpelledEnrollStep ==
    \E uid \in Students, course \in SpelledCourses, name \in SpelledNames :
        EnrollStudentHandler_p5(uid, course, name)

NextSpelled == SpelledEnrollStep \/ UnenrollStep

SpecSpelled == InitSchool /\ [][NextSpelled]_vars

\* The classroom is stored and active.
C27_Stored(course) == course \in DOMAIN classroom /\ classroom[course].active

\* The name is the name of the classroom's teacher, ignoring case and the
\* blanks around it.
C27_NameMatches(name, course) ==
    ToLower(TrimSpace(name)) =
        ToLower(NameOf(teacher[classroom[course].teacher_id].user_id))

\* What the claim says of a request with a teacher name, answered with
\* the given code when the student is actively enrolled.
C27_Outcome(uid, course, name, enrolledCode) ==
    LET sid == ActiveStudentIdOf(uid)
        refused(code) == resp'.code = code /\ enrollment' = enrollment
    IN  /\ enrollment' # enrollment =>
              /\ C27_Stored(course)
              /\ C27_NameMatches(name, course)
              /\ ActiveEnrollments(sid, course) = {}
        /\ ~C27_Stored(course) => refused(StatusNotFound)
        /\ (C27_Stored(course) /\ ~C27_NameMatches(name, course)) =>
              refused(StatusBadRequest)
        /\ (/\ C27_Stored(course)
            /\ C27_NameMatches(name, course)
            /\ ActiveEnrollments(sid, course) # {}) => refused(enrolledCode)

C27_Enrolls(enrolledCode) ==
    \A uid \in Students, course \in SpelledCourses,
       name \in SpelledNames \ {EmptyName} :
        EnrollStudentHandler_p5(uid, course, name) =>
            C27_Outcome(uid, course, name, enrolledCode)

OutsiderCreateStep ==
    \E uid \in Students, aid \in AssignmentIds :
        \/ CreateSubmissionHandler(uid, aid, 1)
        \/ CreateSubmissionHandler_c1(uid, aid, 1)
        \/ CreateSubmissionHandler_c2(uid, aid, 1)

NextOutsider == OutsiderCreateStep \/ UnenrollStep

SpecOutsider == InitCourses /\ [][NextOutsider]_vars

\* A student's create request for a stored assignment in whose course the
\* student has no active enrollment.
C28_NotEnrolled ==
    /\ resp'.verb = "create" /\ resp'.kind = "submission"
    /\ RoleOf(resp'.uid) = "student"
    /\ resp'.id \in DOMAIN assignment
    /\ ActiveEnrollments(ActiveStudentIdOf(resp'.uid),
                         assignment[resp'.id].course_id) = {}

(***************************************************************************)
(* C28: every submission row a create-submission handler inserts belongs   *)
(* to a student with an active enrollment in the course of the assignment, *)
(* and the create request of a student without one is answered 403         *)
(* Forbidden and inserts no row.                                           *)
(***************************************************************************)
C28_EnrolledSubmittersOnly ==
    [][/\ \A x \in DOMAIN submission' \ DOMAIN submission :
             /\ submission'[x].assignment_id \in DOMAIN assignment
             /\ ActiveEnrollments(
                    submission'[x].student_id,
                    assignment[submission'[x].assignment_id].course_id) # {}
       /\ C28_NotEnrolled =>
             /\ resp'.code = StatusForbidden
             /\ submission' = submission]_vars

(***************************************************************************)
(* The percentages of the assignment list.  Students enroll in classroom   *)
(* 1 and unenroll, submit and are graded, and the teachers list the        *)
(* assignments of the classroom.                                           *)
(***************************************************************************)
PercentListStep ==
    \E uid \in Graders, course \in StatisticsCourses :
        GetAssignmentsByClassroomHandler_a1(uid, course)

NextPercent ==
    \/ StatisticsEnrollStep
    \/ UnenrollStep
    \/ StatisticsSubmitStep
    \/ StatisticsGradeStep
    \/ PercentListStep

SpecPercent == InitStatistics /\ [][NextPercent]_vars

\* Two fractions are the same number.
SameNumber(f, g) == f.num * g.den = g.num * f.den

\* num / den * 100, and 0 when den is 0.
C29_Percent(num, den) ==
    IF den = 0 THEN Fraction(0, 1) ELSE Fraction(num * 100, den)

\* The submissions of an assignment that are not deleted.
C29_Submissions(aid) ==
    {x \in DOMAIN submission :
        /\ submission[x].assignment_id = aid
        /\ submission[x].active
        /\ submission[x].status # "deleted"}

C29_SubmissionCount(aid) == Cardinality(C29_Submissions(aid))

C29_GradedCount(aid) ==
    Cardinality({x \in C29_Submissions(aid) : submission[x].status = "graded"})

\* The students enrolled in the course.
C29_EnrolledCount(course) ==
    Cardinality({e \in DOMAIN enrollment :
                   /\ enrollment[e].course_id = course
                   /\ enrollment[e].active})

(***************************************************************************)
(* C29: for every assignment of the assignment list, completion_percent    *)
(* is submission_count / enrolled_count * 100 and graded_percent is        *)
(* graded_count / submission_count * 100, each 0 when its denominator is   *)
(* 0, and the counts are those of the assignment's submissions that are    *)
(* not deleted.                                                            *)
(***************************************************************************)
C29_ListPercentages ==
    [][(resp'.op = "GetAssignmentsByClassroomHandler_a1" /\ ~IsError(resp')) =>
          \A a \in resp'.data.rows :
              LET row == resp'.data.stats[a]
              IN  /\ row.submission_count = C29_SubmissionCount(a)
                  /\ row.graded_count = C29_GradedCount(a)
                  /\ SameNumber(row.completion_percent,
                                C29_Percent(row.submission_count,
                                            C29_EnrolledCount(resp'.id)))
                  /\ SameNumber(row.graded_percent,
                                C29_Percent(row.graded_count,
                                            row.submission_count))]_vars

(***************************************************************************)
(* The database connection of a request.  main registers the middleware    *)
(* that selects the connection on the router and auth.AuthMiddleware on    *)
(* the protected group, so gin runs them in that order.                    *)
(***************************************************************************)
\* InitDatabaseConnections: the root connection is open or main exits; the
\* student and teacher connections stay nil when they fail.
InitDatabaseConnections ==
    /\ conns \in [RootDB : {"root"}, StudentDB : {Nil, "student"},
                  TeacherDB : {Nil, "TEACHER"}]
    /\ now = 0
    /\ inflight = {}
    /\ user = SeedUsers /\ teacher = SeedTeachers /\ student = SeedStudents
    /\ classroom = NoRows /\ enrollment = NoRows /\ assignment = NoRows
    /\ submission = NoRows /\ material = NoRows /\ announcement = NoRows
    /\ nextId = [FirstIds EXCEPT !.user = 5, !.teacher = 3, !.student = 3]
    /\ resp = NoReply

\* The connections that answer a Ping during a request.
Pings == SUBSET {"StudentDB", "TeacherDB"}

\* db.GetDBForRole
GetDBForRole(role, alive) ==
    IF role = "student"
    THEN IF conns.StudentDB # Nil /\ "StudentDB" \in alive
         THEN conns.StudentDB ELSE conns.RootDB
    ELSE IF role = "teacher"
    THEN IF conns.TeacherDB # Nil /\ "TeacherDB" \in alive
         THEN conns.TeacherDB ELSE conns.RootDB
    ELSE conns.RootDB

\* A key of the gin context that no c.Set has written.
NotSet == ""

\* The gin context of a request when the first middleware runs.
NewContext == [userID |-> 0, role |-> NotSet, db |-> Nil]

\* A request to a protected route: the router's middleware stores the
\* connection under "db", AuthMiddleware stores userID and role, and the
\* handler is called with that context.
ProtectedRoute(kind, alive) ==
    /\ LET role == IF NewContext.role = NotSet THEN "root" ELSE NewContext.role
           dbConn == GetDBForRole(role, alive)
           token == Presented(kind).token
       IN  IF dbConn = Nil
           THEN resp' = Reply("main", "abort", "db", 0, 0,
                              StatusInternalServerError,
                              [error |-> "Database connection failed"])
           ELSE IF ~AuthPasses(kind)
           THEN resp' = Reply("AuthMiddleware", "abort", "token", 0, 0,
                              StatusUnauthorized,
                              [error |-> AuthVerdict(Presented(kind)),
                               header |-> Presented(kind)])
           ELSE resp' = Reply("CheckAuthHandler", "get", "user",
                              token.user_id, token.user_id, StatusOK,
                              [context |-> [userID |-> token.user_id,
                                            role |-> token.role,
                                            db |-> dbConn],
                               alive |-> alive])
    /\ UNCHANGED <<people, courseware, enrollment, submission, nextId, now,
                   inflight, conns>>

CallProtected ==
    \E kind \in HeaderKinds, alive \in Pings : ProtectedRoute(kind, alive)

\* The seeded users log in, wait and call a protected route.
NextConnections == LoginStep \/ Wait \/ CallProtected

SpecConnections == InitDatabaseConnections /\ [][NextConnections]_vars

\* The role's own connection when it is configured and answers the ping,
\* the root connection otherwise.
C30_ConnectionOf(role, alive) ==
    LET own == IF role = "student" THEN "StudentDB" ELSE "TeacherDB"
    IN  IF conns[own] # Nil /\ own \in alive THEN conns[own] ELSE conns.RootDB

(***************************************************************************)
(* C30: when a request reaches a protected handler with the role student   *)
(* or teacher, the connection stored under "db" is the connection of that  *)
(* role when it is configured and answers a ping and the root connection   *)
(* otherwise, and it is not nil.                                           *)
(***************************************************************************)
C30_ConnectionByRole ==
    [][(/\ resp'.op = "CheckAuthHandler"
        /\ resp'.data.context.role \in {"student", "teacher"}) =>
          /\ resp'.data.context.db # Nil
          /\ resp'.data.context.db =
                C30_ConnectionOf(resp'.data.context.role, resp'.data.alive)]_vars

====
